---------------------------- MODULE Spec2Model ----------------------------
(***************************************************************************)
(* Counting workflows of SirenBase: Milk Order                             *)
(* (backend/app/routes/tools/milk_order/sessions.py, admin.py and          *)
(* backend/app/models/milk_count.py) and, in the second half of the        *)
(* module, RTD&E (backend/app/routes/tools/rtde/sessions.py,               *)
(* backend/app/models/rtde.py, backend/app/utils/rtde_cleanup.py).         *)
(*                                                                         *)
(* The database is the state: the session table, the entry table and the   *)
(* active flag of the milk type catalog.  A request handler is a database  *)
(* transaction.  Its first step loads what it checks (the session row, or  *)
(* the existence of today's session) and either answers with an error or   *)
(* goes on; its second step runs the rest of the handler - the loop over   *)
(* the request body, the mark_*_complete call and the commit, or the early *)
(* return that abandons the transaction.  No handler locks the row it      *)
(* loads, so steps of other requests may fall between the two when the     *)
(* server runs more than one worker.  The body and the caller of a request *)
(* are first used by the second step and are drawn there.                  *)
(*                                                                         *)
(* Several specifications drive the handlers:                              *)
(*   Spec          racing requests over the whole Milk Order workflow,     *)
(*                 bodies that name one milk type with one value;          *)
(*   DataSpec      one request at a time, every shape of request body, a   *)
(*                 catalog whose second milk type has been switched off;   *)
(*   StartSpec     catalog administration and racing session starts;       *)
(*   SummarySpec   par levels, the workflow with full or empty lists and   *)
(*                 the summary, one request at a time;                     *)
(*   AccessSpec    RTD&E sessions of one user, both users as callers,      *)
(*                 every shape of request, one request at a time;          *)
(*   LifecycleSpec RTD&E session lifecycle of both users, racing requests; *)
(*   CountSpec     RTD&E counts and pull list over a catalog of three      *)
(*                 items, one request at a time;                           *)
(*   UpsertSpec    racing writes of the count row of one item;             *)
(*   SweepSpec     the sessions of one user under a weakly fair sweep;     *)
(*   CascadeSpec   writes of count rows racing with the deletes of their   *)
(*                 session;                                                *)
(*   CoverSpec     the Milk Order workflow with well-formed lists that     *)
(*                 name none, one or both milk types, one request at a     *)
(*                 time.                                                   *)
(*                                                                         *)
(* A nullable column is a set: {} is NULL and {v} is the value v.          *)
(***************************************************************************)
EXTENDS Integers, Sequences, FiniteSets, TLC

\* ------------------------------------------------------------------ bounds
MaxCount == 1
MaxLen == 2
MaxNow == 1
MaxInflight == 2
MaxPar == 3
MaxClock == 2
MaxSessions == 2

\* ----------------------------------------------------------------- domains
NULL == {}

MilkTypeIds == {"whole", "oat"}
GhostId == "ghost"
IdArgs == MilkTypeIds \cup {GhostId}

Users == {"u1", "u2"}

Dates == {"today"}
SessionIdArgs == Dates \cup {"nonexistent-id"}

NIGHT_FOH == "night_foh"
NIGHT_BOH == "night_boh"
MORNING == "morning"
ON_ORDER == "on_order"
COMPLETED == "completed"
SessionStatus == {NIGHT_FOH, NIGHT_BOH, MORNING, ON_ORDER, COMPLETED}

BOH_COUNT == "boh_count"
DIRECT_DELIVERED == "direct_delivered"
MorningMethod == {BOH_COUNT, DIRECT_DELIVERED}

\* Position of a status in the order night_foh < ... < completed.
Rank(st) ==
    CASE st = NIGHT_FOH -> 0
      [] st = NIGHT_BOH -> 1
      [] st = MORNING -> 2
      [] st = ON_ORDER -> 3
      [] st = COMPLETED -> 4

\* JSON values of a request body: an integer, something that is no integer
\* (a string, a float), or a key that is not there.
JInt(n) == [t |-> "int", n |-> n]
JStr == [t |-> "str", n |-> 0]
JAbsent == [t |-> "absent", n |-> 0]
JsonVals == {JAbsent, JStr, JInt(-1)} \cup {JInt(n) : n \in 0..MaxCount}

\* isinstance(v, int) and v >= 0
NonNegInt(v) == v.t = "int" /\ v.n >= 0

Max0(n) == IF n > 0 THEN n ELSE 0
\* Python's `x or 0` on a nullable integer column
OrZero(col) == IF col = NULL THEN 0 ELSE CHOOSE n \in col : TRUE

VARIABLES
    milk_types,   \* catalog: milk type id -> active flag
    par_levels,   \* par level table: milk type id -> NULL or {par_value}
    sessions,     \* table of session rows
    entries,      \* table of entry rows
    inflight,     \* <<handler, session id>> -> requests between their two steps
    workers,      \* how many requests the server handles at a time
    now,          \* the clock read by datetime.utcnow()
    resp,         \* what the last step answered
    rtde_items,     \* RTD&E catalog: table of item rows
    rtde_sessions,  \* table of RTD&E session rows
    rtde_counts,    \* table of RTD&E count rows
    rtde_inflight,  \* RTD&E requests between their two steps
    next_id,        \* the next fresh RTD&E session id
    rtde_resp       \* what the last RTD&E step answered

rtde == <<rtde_items, rtde_sessions, rtde_counts, rtde_inflight, next_id, rtde_resp>>
milk_order == <<milk_types, par_levels, sessions, entries, inflight, resp>>
vars == <<milk_order, workers, now, rtde>>

\* The RTD&E tables before any item or session was created.
NoRtde ==
    /\ rtde_items = {}
    /\ rtde_sessions = {}
    /\ rtde_counts = {}
    /\ rtde_inflight = {}
    /\ next_id = 1
    /\ rtde_resp = [op |-> "none"]
db == <<milk_types, par_levels, sessions, entries>>

START == "start_session"
FOH == "save_night_foh"
BOH == "save_night_boh"
MORN == "save_morning_count"
ONORD == "save_on_order"
SaveOps == {FOH, BOH, MORN, ONORD}
Handlers == {START} \cup SaveOps

\* The status each phase save requires.
Required(op) ==
    CASE op = FOH -> NIGHT_FOH
      [] op = BOH -> NIGHT_BOH
      [] op = MORN -> MORNING
      [] op = ONORD -> ON_ORDER

\* What the last step answered, and what its request asked for: the session
\* id (the date, for start_session), whether the body held a list, the milk type ids the list named, and whether some
\* element held a value that is no non-negative integer, an unknown morning
\* method, or no value for the key its morning method reads.
NoAsk == [list |-> FALSE, ids |-> {}, bad_value |-> FALSE,
          bad_method |-> FALSE, missing_field |-> FALSE]
\* The body of a summary answer; empty for every other answer.
NoTotals == [total_foh |-> 0, total_boh |-> 0, total_delivered |-> 0,
             total_on_order |-> 0, total_inventory |-> 0, total_order |-> 0]
NoSummary == [status |-> "", rows |-> {}, totals |-> NoTotals]
Reply(op, session_id, result, asked) ==
    [op |-> op, session_id |-> session_id, result |-> result, asked |-> asked,
     summary |-> NoSummary]
Resp(op, session_id, result) == Reply(op, session_id, result, NoAsk)

Slots == Handlers \X Dates

RECURSIVE SumOver(_, _)
SumOver(f, S) ==
    IF S = {} THEN 0
    ELSE LET x == CHOOSE y \in S : TRUE IN f[x] + SumOver(f, S \ {x})

NumInflight == SumOver(inflight, Slots)

\* ------------------------------------------------------------------ tables
NewSession(date) ==
    [id |-> date, session_date |-> date, status |-> NIGHT_FOH,
     night_count_user_id |-> NULL, morning_count_user_id |-> NULL,
     night_foh_saved_at |-> NULL, night_boh_saved_at |-> NULL,
     morning_saved_at |-> NULL, on_order_saved_at |-> NULL,
     completed_at |-> NULL]

NewEntry(sid, mt) ==
    [session_id |-> sid, milk_type_id |-> mt,
     foh_count |-> NULL, boh_count |-> NULL, morning_method |-> NULL,
     current_boh |-> NULL, delivered |-> NULL, on_order |-> NULL]

\* MilkOrderSession.query.get(session_id): {} or the row
GetSession(sid) == {s \in sessions : s.id = sid}
\* MilkOrderSession.query.filter_by(session_date=today).first()
SessionOn(date) == {s \in sessions : s.session_date = date}
\* MilkOrderEntry.query.filter_by(session_id=..., milk_type_id=...).first()
FindEntry(tbl, sid, mt) == {e \in tbl : e.session_id = sid /\ e.milk_type_id = mt}

\* The seeded catalog (every milk type active), no session yet.
Init ==
    /\ milk_types = [m \in MilkTypeIds |-> TRUE]
    /\ par_levels = [m \in MilkTypeIds |-> {0}]
    /\ sessions = {}
    /\ entries = {}
    /\ inflight = [k \in Slots |-> 0]
    /\ workers = MaxInflight
    /\ now = 0
    /\ resp = Resp("none", "", "none")
    /\ NoRtde

\* As Init after the admin has switched "oat" off, on a server with one worker.
InitData ==
    /\ milk_types = [m \in MilkTypeIds |-> m = "whole"]
    /\ par_levels = [m \in MilkTypeIds |-> {0}]
    /\ sessions = {}
    /\ entries = {}
    /\ inflight = [k \in Slots |-> 0]
    /\ workers = 1
    /\ now = 0
    /\ resp = Resp("none", "", "none")
    /\ NoRtde

\* ------------------------------------------------------------ model methods
mark_night_foh_complete(s, user_id) ==
    [s EXCEPT !.status = NIGHT_BOH,
              !.night_foh_saved_at = {now},
              !.night_count_user_id = {user_id}]

\* mark_night_boh_complete that also resets the night user
mark_night_boh_complete_resets_user(s) ==
    [s EXCEPT !.status = MORNING,
              !.night_boh_saved_at = {now},
              !.night_count_user_id = NULL]

mark_night_boh_complete(s) ==
    [s EXCEPT !.status = MORNING,
              !.night_boh_saved_at = {now}]

mark_morning_complete(s, user_id) ==
    [s EXCEPT !.status = ON_ORDER,
              !.morning_saved_at = {now},
              !.morning_count_user_id = {user_id}]

mark_on_order_complete(s, user_id) ==
    [s EXCEPT !.status = COMPLETED,
              !.on_order_saved_at = {now},
              !.completed_at = {now},
              !.morning_count_user_id = {user_id}]

calculate_delivered(e) ==
    IF e.morning_method = {BOH_COUNT}
    THEN IF e.current_boh # NULL /\ e.boh_count # NULL
         THEN {Max0(OrZero(e.current_boh) - OrZero(e.boh_count))}
         ELSE NULL
    ELSE IF e.morning_method = {DIRECT_DELIVERED}
         THEN e.delivered
         ELSE NULL

\* ---------------------------------------------------------- request bodies
\* One element of "counts" / "on_orders" of the three plain saves.
CountElems == [milk_type_id : {NULL} \cup {{m} : m \in IdArgs}, val : JsonVals]

\* One element of "counts" of the morning save.  The key the chosen method
\* does not read is left out or holds 0; an element without a usable method
\* carries neither key.
MethodArgs == MorningMethod \cup {"bogus"}
MorningElems ==
    {[milk_type_id |-> {m}, method |-> {BOH_COUNT}, current_boh |-> v, delivered |-> d] :
        m \in IdArgs, v \in JsonVals, d \in {JAbsent, JInt(0)}}
    \cup
    {[milk_type_id |-> {m}, method |-> {DIRECT_DELIVERED}, current_boh |-> v, delivered |-> d] :
        m \in IdArgs, v \in {JAbsent, JInt(0)}, d \in JsonVals}
    \cup
    {[milk_type_id |-> {m}, method |-> {"bogus"}, current_boh |-> JAbsent, delivered |-> JAbsent] :
        m \in IdArgs}
    \cup
    {[milk_type_id |-> {m}, method |-> NULL, current_boh |-> JAbsent, delivered |-> JAbsent] :
        m \in IdArgs}
    \cup
    {[milk_type_id |-> NULL, method |-> {BOH_COUNT}, current_boh |-> JInt(0), delivered |-> JAbsent]}

Lists(E) == UNION {[1..n -> E] : n \in 0..MaxLen}
\* A body is {} when the list key is missing or holds no list, else {list}.
Bodies(E) == {NULL} \cup {{l} : l \in Lists(E)}

Outcome(error, tbl) == [error |-> error, tbl |-> tbl]

ListOf(body) == CHOOSE l \in body : TRUE
Elems(body) == IF body = NULL THEN {} ELSE {ListOf(body)[i] : i \in DOMAIN ListOf(body)}
BadValue(v) == v # JAbsent /\ ~NonNegInt(v)
\* The value of the key the element's morning method reads.
MethodValue(c) == IF c.method = {BOH_COUNT} THEN c.current_boh ELSE c.delivered

AskedCounts(body) ==
    [list |-> body # NULL,
     ids |-> UNION {c.milk_type_id : c \in Elems(body)},
     bad_value |-> \E c \in Elems(body) : BadValue(c.val),
     bad_method |-> FALSE,
     missing_field |-> FALSE]

AskedMorning(body) ==
    [list |-> body # NULL,
     ids |-> UNION {c.milk_type_id : c \in Elems(body)},
     bad_value |-> \E c \in Elems(body) :
                      c.method \in {{BOH_COUNT}, {DIRECT_DELIVERED}} /\ BadValue(MethodValue(c)),
     bad_method |-> \E c \in Elems(body) :
                      c.method # NULL /\ c.method \notin {{BOH_COUNT}, {DIRECT_DELIVERED}},
     missing_field |-> \E c \in Elems(body) :
                      c.method \in {{BOH_COUNT}, {DIRECT_DELIVERED}} /\ MethodValue(c) = JAbsent]

\* ------------------------------------------------------------ the clock
Tick ==
    /\ now < MaxNow
    /\ now' = now + 1
    /\ resp' = Resp("tick", "", "none")
    /\ UNCHANGED <<rtde, par_levels, milk_types, sessions, entries, inflight, workers>>

\* ------------------------------------------------------------ admin
update_milk_type(milk_type_id, active) ==
    /\ NumInflight < workers
    /\ IF milk_type_id \notin MilkTypeIds
       THEN /\ resp' = Resp("update_milk_type", "", "NotFound")
            /\ UNCHANGED milk_types
       ELSE /\ milk_types' = [milk_types EXCEPT ![milk_type_id] = active]
            /\ resp' = Resp("update_milk_type", "", "ok")
    /\ UNCHANGED <<rtde, par_levels, sessions, entries, inflight, workers, now>>

\* PUT /admin/par-levels/<milk_type_id>
update_par_level(milk_type_id, par_value) ==
    /\ NumInflight < workers
    /\ IF milk_type_id \notin MilkTypeIds
       THEN /\ resp' = Resp("update_par_level", "", "NotFound")
            /\ UNCHANGED par_levels
       ELSE IF par_value = JAbsent \/ ~NonNegInt(par_value)
       THEN /\ resp' = Resp("update_par_level", "", "ValidationError")
            /\ UNCHANGED par_levels
       ELSE /\ par_levels' = [par_levels EXCEPT ![milk_type_id] = {par_value.n}]
            /\ resp' = Resp("update_par_level", "", "ok")
    /\ UNCHANGED <<rtde, milk_types, sessions, entries, inflight, workers, now>>

\* ------------------------------------------------------------ start_session
\* start_session_check without the existence check
start_session_check_blind(today) ==
    /\ NumInflight < workers
    /\ inflight' = [inflight EXCEPT ![<<START, today>>] = @ + 1]
    /\ resp' = Resp(START, today, "pending")
    /\ UNCHANGED <<rtde, par_levels, milk_types, sessions, entries, workers, now>>

\* start_session_create with an entry for every milk type, active or not
start_session_create_all(today) ==
    /\ inflight[<<START, today>>] > 0
    /\ inflight' = [inflight EXCEPT ![<<START, today>>] = @ - 1]
    /\ IF SessionOn(today) # {}
       THEN /\ resp' = Resp(START, today, "ServerError")
            /\ UNCHANGED <<sessions, entries>>
       ELSE /\ sessions' = sessions \cup {NewSession(today)}
            /\ entries' = entries \cup {NewEntry(today, m) : m \in MilkTypeIds}
            /\ resp' = Resp(START, today, "ok")
    /\ UNCHANGED <<rtde, par_levels, milk_types, workers, now>>

\* First step: the existence check.
start_session_check(today) ==
    /\ NumInflight < workers
    /\ IF SessionOn(today) # {}
       THEN /\ resp' = Resp(START, today, "Conflict")
            /\ UNCHANGED inflight
       ELSE /\ inflight' = [inflight EXCEPT ![<<START, today>>] = @ + 1]
            /\ resp' = Resp(START, today, "pending")
    /\ UNCHANGED <<rtde, par_levels, milk_types, sessions, entries, workers, now>>

\* Second step: insert of the session (flushed by the milk type query, where
\* the unique session_date refuses a second row), one entry per active milk
\* type, commit.
start_session_create(today) ==
    /\ inflight[<<START, today>>] > 0
    /\ inflight' = [inflight EXCEPT ![<<START, today>>] = @ - 1]
    /\ IF SessionOn(today) # {}
       THEN /\ resp' = Resp(START, today, "ServerError")
            /\ UNCHANGED <<sessions, entries>>
       ELSE /\ sessions' = sessions \cup {NewSession(today)}
            /\ entries' = entries \cup
                   {NewEntry(today, m) : m \in {x \in MilkTypeIds : milk_types[x]}}
            /\ resp' = Resp(START, today, "ok")
    /\ UNCHANGED <<rtde, par_levels, milk_types, workers, now>>

\* ------------------------------------------------- first step of the saves
\* save_check without the status check
save_check_any_phase(op, session_id) ==
    /\ NumInflight < workers
    /\ IF GetSession(session_id) = {}
       THEN /\ resp' = Resp(op, session_id, "NotFound")
            /\ UNCHANGED inflight
       ELSE /\ inflight' = [inflight EXCEPT ![<<op, session_id>>] = @ + 1]
            /\ resp' = Resp(op, session_id, "pending")
    /\ UNCHANGED <<rtde, par_levels, milk_types, sessions, entries, workers, now>>

\* query.get(session_id), the 404 and the status check.
save_check(op, session_id) ==
    /\ NumInflight < workers
    /\ IF GetSession(session_id) = {}
       THEN /\ resp' = Resp(op, session_id, "NotFound")
            /\ UNCHANGED inflight
       ELSE LET session == CHOOSE s \in GetSession(session_id) : TRUE IN
            IF session.status # Required(op)
            THEN /\ resp' = Resp(op, session_id, "InvalidPhase")
                 /\ UNCHANGED inflight
            ELSE /\ inflight' = [inflight EXCEPT ![<<op, session_id>>] = @ + 1]
                 /\ resp' = Resp(op, session_id, "pending")
    /\ UNCHANGED <<rtde, par_levels, milk_types, sessions, entries, workers, now>>

\* entry.<column> = value on the row of the working copy of the entry table
SetRow(tbl, old, new) == (tbl \ {old}) \cup {new}

TheSession(session_id) == CHOOSE s \in GetSession(session_id) : TRUE

Take(op, session_id) == inflight' = [inflight EXCEPT ![<<op, session_id>>] = @ - 1]

\* ------------------------------------------------------------ save_night_foh
\* The loop over data['counts']: tbl is the entry table as this transaction
\* sees it, writes of earlier elements included.
RECURSIVE foh_loop(_, _, _, _)
foh_loop(tbl, session_id, counts, i) ==
    IF i > Len(counts) THEN Outcome("none", tbl)
    ELSE LET count_data == counts[i] IN
         IF count_data.milk_type_id = NULL \/ count_data.val = JAbsent
         THEN Outcome("ValidationError", tbl)
         ELSE IF ~NonNegInt(count_data.val)
         THEN Outcome("ValidationError", tbl)
         ELSE LET mt == CHOOSE m \in count_data.milk_type_id : TRUE
                  entry == FindEntry(tbl, session_id, mt)
              IN  IF entry # {}
                  THEN LET e == CHOOSE x \in entry : TRUE IN
                       foh_loop(SetRow(tbl, e, [e EXCEPT !.foh_count = {count_data.val.n}]),
                                session_id, counts, i + 1)
                  ELSE foh_loop(tbl, session_id, counts, i + 1)

save_night_foh(session_id, current_user_id, body) ==
    /\ inflight[<<FOH, session_id>>] > 0
    /\ Take(FOH, session_id)
    /\ IF body = NULL
       THEN /\ resp' = Reply(FOH, session_id, "ValidationError", AskedCounts(body))
            /\ UNCHANGED <<sessions, entries>>
       ELSE LET out == foh_loop(entries, session_id, ListOf(body), 1)
                session == TheSession(session_id)
            IN  IF out.error # "none"
                THEN /\ resp' = Reply(FOH, session_id, out.error, AskedCounts(body))
                     /\ UNCHANGED <<sessions, entries>>
                ELSE /\ entries' = out.tbl
                     /\ sessions' = SetRow(sessions, session,
                                           mark_night_foh_complete(session, current_user_id))
                     /\ resp' = Reply(FOH, session_id, "ok", AskedCounts(body))
    /\ UNCHANGED <<rtde, par_levels, milk_types, workers, now>>

\* ------------------------------------------------------------ save_night_boh
RECURSIVE boh_loop(_, _, _, _)
boh_loop(tbl, session_id, counts, i) ==
    IF i > Len(counts) THEN Outcome("none", tbl)
    ELSE LET count_data == counts[i] IN
         IF count_data.milk_type_id = NULL \/ count_data.val = JAbsent
         THEN Outcome("ValidationError", tbl)
         ELSE IF ~NonNegInt(count_data.val)
         THEN Outcome("ValidationError", tbl)
         ELSE LET mt == CHOOSE m \in count_data.milk_type_id : TRUE
                  entry == FindEntry(tbl, session_id, mt)
              IN  IF entry # {}
                  THEN LET e == CHOOSE x \in entry : TRUE IN
                       boh_loop(SetRow(tbl, e, [e EXCEPT !.boh_count = {count_data.val.n}]),
                                session_id, counts, i + 1)
                  ELSE boh_loop(tbl, session_id, counts, i + 1)

save_night_boh(session_id, body) ==
    /\ inflight[<<BOH, session_id>>] > 0
    /\ Take(BOH, session_id)
    /\ IF body = NULL
       THEN /\ resp' = Reply(BOH, session_id, "ValidationError", AskedCounts(body))
            /\ UNCHANGED <<sessions, entries>>
       ELSE LET out == boh_loop(entries, session_id, ListOf(body), 1)
                session == TheSession(session_id)
            IN  IF out.error # "none"
                THEN /\ resp' = Reply(BOH, session_id, out.error, AskedCounts(body))
                     /\ UNCHANGED <<sessions, entries>>
                ELSE /\ entries' = out.tbl
                     /\ sessions' = SetRow(sessions, session, mark_night_boh_complete(session))
                     /\ resp' = Reply(BOH, session_id, "ok", AskedCounts(body))
    /\ UNCHANGED <<rtde, par_levels, milk_types, workers, now>>

\* -------------------------------------------------------- save_morning_count
\* delivered_by_boh_count without the clamp at zero
delivered_by_boh_count_unclamped(current_boh, boh_count) == current_boh - OrZero(boh_count)

\* direct_delivered without the reset of current_boh
direct_delivered_keeps_boh(e, delivered) == [e EXCEPT !.delivered = {delivered}]

\* entry.delivered of the boh_count method
delivered_by_boh_count(current_boh, boh_count) == Max0(current_boh - OrZero(boh_count))

\* direct_delivered that also clears the night back count
direct_delivered_clears_boh_count(e, delivered) ==
    [e EXCEPT !.delivered = {delivered}, !.current_boh = NULL, !.boh_count = NULL]

\* the two writes of the direct_delivered method
direct_delivered(e, delivered) ==
    [e EXCEPT !.delivered = {delivered}, !.current_boh = NULL]

RECURSIVE morning_loop(_, _, _, _)
morning_loop(tbl, session_id, counts, i) ==
    IF i > Len(counts) THEN Outcome("none", tbl)
    ELSE LET count_data == counts[i] IN
         IF count_data.milk_type_id = NULL \/ count_data.method = NULL
         THEN Outcome("ValidationError", tbl)
         ELSE IF count_data.method \notin {{BOH_COUNT}, {DIRECT_DELIVERED}}
         THEN Outcome("ValidationError", tbl)
         ELSE LET mt == CHOOSE m \in count_data.milk_type_id : TRUE
                  entry == FindEntry(tbl, session_id, mt)
              IN  IF entry # {}
                  THEN LET e == CHOOSE x \in entry : TRUE
                           e1 == [e EXCEPT !.morning_method = count_data.method]
                           t1 == SetRow(tbl, e, e1)
                       IN  IF count_data.method = {BOH_COUNT}
                           THEN IF count_data.current_boh = JAbsent
                                THEN Outcome("ValidationError", t1)
                                ELSE IF ~NonNegInt(count_data.current_boh)
                                THEN Outcome("ValidationError", t1)
                                ELSE LET current_boh == count_data.current_boh.n
                                         e2 == [e1 EXCEPT
                                                  !.current_boh = {current_boh},
                                                  !.delivered =
                                                      {delivered_by_boh_count(current_boh, e.boh_count)}]
                                     IN  morning_loop(SetRow(tbl, e, e2), session_id, counts, i + 1)
                           ELSE IF count_data.delivered = JAbsent
                                THEN Outcome("ValidationError", t1)
                                ELSE IF ~NonNegInt(count_data.delivered)
                                THEN Outcome("ValidationError", t1)
                                ELSE LET e2 == direct_delivered(e1, count_data.delivered.n)
                                     IN  morning_loop(SetRow(tbl, e, e2), session_id, counts, i + 1)
                  ELSE morning_loop(tbl, session_id, counts, i + 1)

save_morning_count(session_id, current_user_id, body) ==
    /\ inflight[<<MORN, session_id>>] > 0
    /\ Take(MORN, session_id)
    /\ IF body = NULL
       THEN /\ resp' = Reply(MORN, session_id, "ValidationError", AskedMorning(body))
            /\ UNCHANGED <<sessions, entries>>
       ELSE LET out == morning_loop(entries, session_id, ListOf(body), 1)
                session == TheSession(session_id)
            IN  IF out.error # "none"
                THEN /\ resp' = Reply(MORN, session_id, out.error, AskedMorning(body))
                     /\ UNCHANGED <<sessions, entries>>
                ELSE /\ entries' = out.tbl
                     /\ sessions' = SetRow(sessions, session,
                                           mark_morning_complete(session, current_user_id))
                     /\ resp' = Reply(MORN, session_id, "ok", AskedMorning(body))
    /\ UNCHANGED <<rtde, par_levels, milk_types, workers, now>>

\* ------------------------------------------------------------- save_on_order
RECURSIVE on_order_loop(_, _, _, _)
on_order_loop(tbl, session_id, on_orders, i) ==
    IF i > Len(on_orders) THEN Outcome("none", tbl)
    ELSE LET order_data == on_orders[i] IN
         IF order_data.milk_type_id = NULL \/ order_data.val = JAbsent
         THEN Outcome("ValidationError", tbl)
         ELSE IF ~NonNegInt(order_data.val)
         THEN Outcome("ValidationError", tbl)
         ELSE LET mt == CHOOSE m \in order_data.milk_type_id : TRUE
                  entry == FindEntry(tbl, session_id, mt)
              IN  IF entry # {}
                  THEN LET e == CHOOSE x \in entry : TRUE IN
                       on_order_loop(SetRow(tbl, e, [e EXCEPT !.on_order = {order_data.val.n}]),
                                     session_id, on_orders, i + 1)
                  ELSE on_order_loop(tbl, session_id, on_orders, i + 1)

save_on_order(session_id, current_user_id, body) ==
    /\ inflight[<<ONORD, session_id>>] > 0
    /\ Take(ONORD, session_id)
    /\ IF body = NULL
       THEN /\ resp' = Reply(ONORD, session_id, "ValidationError", AskedCounts(body))
            /\ UNCHANGED <<sessions, entries>>
       ELSE LET out == on_order_loop(entries, session_id, ListOf(body), 1)
                session == TheSession(session_id)
            IN  IF out.error # "none"
                THEN /\ resp' = Reply(ONORD, session_id, out.error, AskedCounts(body))
                     /\ UNCHANGED <<sessions, entries>>
                ELSE /\ entries' = out.tbl
                     /\ sessions' = SetRow(sessions, session,
                                           mark_on_order_complete(session, current_user_id))
                     /\ resp' = Reply(ONORD, session_id, "ok", AskedCounts(body))
    /\ UNCHANGED <<rtde, par_levels, milk_types, workers, now>>

\* ------------------------------------------------------- get_session_summary
SUMMARY == "get_session_summary"

\* summary_row without the subtraction of on_order
summary_row_ignores_on_order(entry) ==
    LET foh == OrZero(entry.foh_count)
        boh == OrZero(entry.boh_count)
        delivered == OrZero(calculate_delivered(entry))
        on_order == OrZero(entry.on_order)
        total == foh + boh + delivered
        par == IF par_levels[entry.milk_type_id] # NULL
               THEN OrZero(par_levels[entry.milk_type_id]) ELSE 0
        order == Max0(par - total)
    IN  [milk_type |-> entry.milk_type_id, foh |-> foh, boh |-> boh,
         delivered |-> delivered, on_order |-> on_order, total |-> total,
         par |-> par, order |-> order]

\* One pass of the loop over the entries: the row appended to summary.
summary_row(entry) ==
    LET foh == OrZero(entry.foh_count)
        boh == OrZero(entry.boh_count)
        delivered == OrZero(calculate_delivered(entry))
        on_order == OrZero(entry.on_order)
        total == foh + boh + delivered
        par == IF par_levels[entry.milk_type_id] # NULL
               THEN OrZero(par_levels[entry.milk_type_id]) ELSE 0
        order == Max0(par - total - on_order)
    IN  [milk_type |-> entry.milk_type_id, foh |-> foh, boh |-> boh,
         delivered |-> delivered, on_order |-> on_order, total |-> total,
         par |-> par, order |-> order]

RECURSIVE SumRows(_, _)
SumRows(rows, key) ==
    IF rows = {} THEN 0
    ELSE LET r == CHOOSE x \in rows : TRUE IN r[key] + SumRows(rows \ {r}, key)

summary_totals(rows) ==
    [total_foh |-> SumRows(rows, "foh"), total_boh |-> SumRows(rows, "boh"),
     total_delivered |-> SumRows(rows, "delivered"),
     total_on_order |-> SumRows(rows, "on_order"),
     total_inventory |-> SumRows(rows, "total"),
     total_order |-> SumRows(rows, "order")]

\* One query loads the session with its entries, their milk types and par
\* levels; every entry's milk type exists, the catalog is never deleted from.
get_session_summary(session_id) ==
    /\ NumInflight < workers
    /\ IF GetSession(session_id) = {}
       THEN resp' = Resp(SUMMARY, session_id, "NotFound")
       ELSE LET session == TheSession(session_id)
                rows == {summary_row(e) : e \in {x \in entries : x.session_id = session_id}}
            IN  resp' = [Resp(SUMMARY, session_id, "ok") EXCEPT
                           !.summary = [status |-> session.status, rows |-> rows,
                                        totals |-> summary_totals(rows)]]
    /\ UNCHANGED <<rtde, milk_types, par_levels, sessions, entries, inflight, workers, now>>

\* =================================================================== RTD&E
\* The RTD&E counting sessions (backend/app/routes/tools/rtde/sessions.py,
\* backend/app/models/rtde.py, backend/app/utils/rtde_cleanup.py).  A handler
\* that writes has two steps: the first loads the rows it checks and answers
\* the errors found before the try block, the second runs the try block and
\* commits.  update_count and mark_item_pulled have three: the query of the
\* count row in the try block is a step of its own, before the write.  A
\* handler that only reads is one step.
IN_PROGRESS == "in_progress"
EXPIRED == "expired"
RtdeStatus == {IN_PROGRESS, COMPLETED, EXPIRED}

\* timedelta(minutes=30); one step of the clock is that many minutes
WindowMinutes == 30
StepMinutes == 30
Window == WindowMinutes \div StepMinutes

RtdeItemIds == {"latte"}
RtdeItemArgs == RtdeItemIds \cup {GhostId}
SessionIds == 1..MaxSessions

ACTIVE == "get_active_session"
RSTART == "start_session"
GET == "get_session"
COUNT == "update_count"
PULL_LIST == "get_pull_list"
PULL == "mark_item_pulled"
COMPLETE == "complete_session"
CLEANUP == "cleanup_expired_sessions_query"
\* The operations on /sessions/<session_id>
SessionScoped == {GET, COUNT, PULL_LIST, PULL, COMPLETE}

\* RTDECountSession(user_id=..., status='in_progress', started_at=utcnow())
NewRtdeSession(id, user_id) ==
    [id |-> id, user_id |-> user_id, status |-> IN_PROGRESS,
     started_at |-> now, expires_at |-> now + Window, completed_at |-> NULL]

\* is_expired that never finds a session expired
is_expired_never(session) == FALSE

is_expired(session) == now > session.expires_at

mark_completed(session) ==
    [session EXCEPT !.status = COMPLETED, !.completed_at = {now}]

\* RTDECountSession.query.get(session_id): {} or the row
GetRtdeSession(session_id) == {x \in rtde_sessions : x.id = session_id}
\* filter_by(user_id=current_user_id, status='in_progress')
InProgressOf(user_id) ==
    {x \in rtde_sessions : x.user_id = user_id /\ x.status = IN_PROGRESS}
\* order_by(started_at.desc()).first(): the rows that may come first
MostRecent(rows) == {x \in rows : \A y \in rows : y.started_at <= x.started_at}
\* RTDESessionCount.query.filter_by(session_id=..., item_id=...).first()
FindCount(session_id, item_id) ==
    {c \in rtde_counts : c.session_id = session_id /\ c.item_id = item_id}
CountsOf(session_id) == {c \in rtde_counts : c.session_id = session_id}

\* What the last RTD&E step answered: the handler, the caller, the session
\* id of the URL (0 when the URL has none), the result, whether the body
\* passes the validation of the handler, and the data of the answer.
RReply(op, user, session_id, result, payload_ok, returned) ==
    [op |-> op, user |-> user, session_id |-> session_id, result |-> result,
     payload_ok |-> payload_ok, returned |-> returned]

\* A request between its steps, in the lowest free worker slot.  found is
\* what the query of the count row of update_count and mark_item_pulled
\* gave: UNREAD before the query, ROW or NO_ROW after it, GONE once the row
\* it gave has been deleted by another request.
UNREAD == "unread"
ROW == "row"
NO_ROW == "no_row"
GONE == "gone"
FreeSlot == CHOOSE k \in 1..workers : \A r \in rtde_inflight : r.k # k
Pending(op, user, session_id, loaded, item_id, counted_quantity, is_pulled) ==
    [k |-> FreeSlot, op |-> op, user |-> user, session_id |-> session_id,
     loaded |-> loaded, item_id |-> item_id,
     counted_quantity |-> counted_quantity, is_pulled |-> is_pulled,
     found |-> UNREAD]
\* The requests in flight after the count rows of the sessions ids are
\* deleted: a count row that a request holds is no longer in the table.
Forget(requests, ids) ==
    {IF r.found = ROW /\ r.session_id \in ids THEN [r EXCEPT !.found = GONE] ELSE r :
       r \in requests}
WorkerFree == Cardinality(rtde_inflight) < workers

\* ---------------------------------------------------------------- the clock
Elapse ==
    /\ now < MaxClock
    /\ now' = now + 1
    /\ rtde_resp' = RReply("elapse", "", 0, "none", TRUE, {})
    /\ UNCHANGED <<milk_order, workers, rtde_items, rtde_sessions, rtde_counts,
                   rtde_inflight, next_id>>

\* ------------------------------------------------------ get_active_session
\* First step: the query and is_expired().
get_active_session_load(current_user_id) ==
    /\ WorkerFree
    /\ IF InProgressOf(current_user_id) = {}
       THEN /\ rtde_resp' = RReply(ACTIVE, current_user_id, 0, "ok", TRUE, {})
            /\ UNCHANGED rtde_inflight
       ELSE \E session \in MostRecent(InProgressOf(current_user_id)) :
            IF is_expired(session)
            THEN /\ rtde_inflight' = rtde_inflight \cup
                       {Pending(ACTIVE, current_user_id, session.id, {}, NULL, 0, FALSE)}
                 /\ rtde_resp' = RReply(ACTIVE, current_user_id, 0, "pending", TRUE, {})
            ELSE /\ rtde_resp' = RReply(ACTIVE, current_user_id, 0, "ok", TRUE,
                        {[id |-> session.id, started_at |-> session.started_at,
                          expires_at |-> session.expires_at,
                          items_counted |->
                             Cardinality({c \in CountsOf(session.id) : c.counted_quantity > 0}),
                          total_items |-> Cardinality({i \in rtde_items : i.active})]})
                 /\ UNCHANGED rtde_inflight
    /\ UNCHANGED <<milk_order, workers, now, rtde_items, rtde_sessions, rtde_counts, next_id>>

\* get_active_session_expire that answers without the write of the status
get_active_session_expire_no_flip(r) ==
    /\ r \in rtde_inflight /\ r.op = ACTIVE
    /\ rtde_inflight' = rtde_inflight \ {r}
    /\ rtde_resp' = RReply(ACTIVE, r.user, 0, "ok", TRUE, {})
    /\ UNCHANGED <<milk_order, workers, now, rtde_items, rtde_sessions, rtde_counts, next_id>>

\* Second step: session.status = 'expired' and the commit; the UPDATE of a
\* row that is gone raises.
get_active_session_expire(r) ==
    /\ r \in rtde_inflight /\ r.op = ACTIVE
    /\ rtde_inflight' = rtde_inflight \ {r}
    /\ IF GetRtdeSession(r.session_id) = {}
       THEN /\ rtde_resp' = RReply(ACTIVE, r.user, 0, "ServerError", TRUE, {})
            /\ UNCHANGED rtde_sessions
       ELSE LET session == CHOOSE x \in GetRtdeSession(r.session_id) : TRUE IN
            /\ rtde_sessions' = (rtde_sessions \ {session})
                                   \cup {[session EXCEPT !.status = EXPIRED]}
            /\ rtde_resp' = RReply(ACTIVE, r.user, 0, "ok", TRUE, {})
    /\ UNCHANGED <<milk_order, workers, now, rtde_items, rtde_counts, next_id>>

\* ------------------------------------------------------------ start_session
Actions == {"new", "resume"}

\* First step: the query of the in_progress sessions of the caller;
\* action=resume answers from it.
rtde_start_session_load(current_user_id, action) ==
    /\ WorkerFree
    /\ LET existing_sessions == InProgressOf(current_user_id) IN
       IF action = "resume"
       THEN /\ UNCHANGED rtde_inflight
            /\ IF existing_sessions = {}
               THEN rtde_resp' = RReply(RSTART, current_user_id, 0, "NoActiveSession", TRUE, {})
               ELSE \E existing_session \in MostRecent(existing_sessions) :
                    IF is_expired(existing_session)
                    THEN rtde_resp' = RReply(RSTART, current_user_id, 0,
                                             "NoActiveSession", TRUE, {})
                    ELSE rtde_resp' = RReply(RSTART, current_user_id, 0, "ok", TRUE,
                                             {[id |-> existing_session.id,
                                               expires_at |-> existing_session.expires_at]})
       ELSE /\ next_id <= MaxSessions
            /\ rtde_inflight' = rtde_inflight \cup
                   {Pending(RSTART, current_user_id, 0,
                            {x.id : x \in existing_sessions}, NULL, 0, FALSE)}
            /\ rtde_resp' = RReply(RSTART, current_user_id, 0, "pending", TRUE, {})
    /\ UNCHANGED <<milk_order, workers, now, rtde_items, rtde_sessions, rtde_counts, next_id>>

\* Second step of action=new: the delete of every loaded session (with its
\* counts; the DELETE of a row that is gone raises), the new session, the
\* commit.
rtde_start_session_commit(r) ==
    /\ r \in rtde_inflight /\ r.op = RSTART
    /\ IF \E id \in r.loaded : GetRtdeSession(id) = {}
       THEN /\ rtde_resp' = RReply(RSTART, r.user, 0, "ServerError", TRUE, {})
            /\ rtde_inflight' = rtde_inflight \ {r}
            /\ UNCHANGED <<rtde_sessions, rtde_counts, next_id>>
       ELSE LET session == NewRtdeSession(next_id, r.user) IN
            /\ next_id <= MaxSessions
            /\ rtde_inflight' = Forget(rtde_inflight \ {r}, r.loaded)
            /\ rtde_sessions' = {x \in rtde_sessions : x.id \notin r.loaded} \cup {session}
            /\ rtde_counts' = {c \in rtde_counts : c.session_id \notin r.loaded}
            /\ next_id' = next_id + 1
            /\ rtde_resp' = RReply(RSTART, r.user, 0, "ok", TRUE,
                                    {[id |-> session.id, expires_at |-> session.expires_at]})
    /\ UNCHANGED <<milk_order, workers, now, rtde_items>>

\* ------------------------------------------------- checks of a session URL
\* SessionError without the ownership check
SessionErrorAnyUser(session_id, current_user_id) ==
    IF GetRtdeSession(session_id) = {} THEN "NotFound" ELSE ""

\* query.get(session_id), the 404 and the ownership check: "" when both pass.
SessionError(session_id, current_user_id) ==
    IF GetRtdeSession(session_id) = {} THEN "NotFound"
    ELSE IF (CHOOSE x \in GetRtdeSession(session_id) : TRUE).user_id # current_user_id
    THEN "Forbidden"
    ELSE ""

\* The rows of the answer of get_session and get_pull_list: one per active item.
ItemRows(session_id) ==
    {LET count == FindCount(session_id, item.id)
         counted_quantity == IF count # {} THEN (CHOOSE c \in count : TRUE).counted_quantity
                             ELSE 0
     IN  [item_id |-> item.id, par_level |-> item.par_level,
          counted_quantity |-> counted_quantity,
          need_quantity |-> Max0(item.par_level - counted_quantity),
          is_pulled |-> IF count # {} THEN (CHOOSE c \in count : TRUE).is_pulled ELSE FALSE]
     : item \in {i \in rtde_items : i.active}}

get_session(session_id, current_user_id) ==
    /\ WorkerFree
    /\ IF SessionError(session_id, current_user_id) # ""
       THEN rtde_resp' = RReply(GET, current_user_id, session_id,
                                SessionError(session_id, current_user_id), TRUE, {})
       ELSE rtde_resp' = RReply(GET, current_user_id, session_id, "ok", TRUE,
                                {[session |-> CHOOSE x \in GetRtdeSession(session_id) : TRUE,
                                  items |-> ItemRows(session_id)]})
    /\ UNCHANGED <<milk_order, workers, now, rtde_items, rtde_sessions, rtde_counts,
                   rtde_inflight, next_id>>

\* get_pull_list without the test need_quantity > 0
get_pull_list_all_rows(session_id, current_user_id) ==
    /\ WorkerFree
    /\ IF SessionError(session_id, current_user_id) # ""
       THEN rtde_resp' = RReply(PULL_LIST, current_user_id, session_id,
                                SessionError(session_id, current_user_id), TRUE, {})
       ELSE LET pull_list == {[item_id |-> row.item_id, need_quantity |-> row.need_quantity,
                                is_pulled |-> row.is_pulled] : row \in ItemRows(session_id)}
            IN  rtde_resp' = RReply(PULL_LIST, current_user_id, session_id, "ok", TRUE,
                                   {[pull_list |-> pull_list,
                                     total_items |-> Cardinality(pull_list),
                                     items_pulled |->
                                        Cardinality({x \in pull_list : x.is_pulled})]})
    /\ UNCHANGED <<milk_order, workers, now, rtde_items, rtde_sessions, rtde_counts,
                   rtde_inflight, next_id>>

get_pull_list(session_id, current_user_id) ==
    /\ WorkerFree
    /\ IF SessionError(session_id, current_user_id) # ""
       THEN rtde_resp' = RReply(PULL_LIST, current_user_id, session_id,
                                SessionError(session_id, current_user_id), TRUE, {})
       ELSE LET pull_list == {[item_id |-> row.item_id, need_quantity |-> row.need_quantity,
                                is_pulled |-> row.is_pulled] :
                               row \in {x \in ItemRows(session_id) : x.need_quantity > 0}}
            IN  rtde_resp' = RReply(PULL_LIST, current_user_id, session_id, "ok", TRUE,
                                   {[pull_list |-> pull_list,
                                     total_items |-> Cardinality(pull_list),
                                     items_pulled |->
                                        Cardinality({x \in pull_list : x.is_pulled})]})
    /\ UNCHANGED <<milk_order, workers, now, rtde_items, rtde_sessions, rtde_counts,
                   rtde_inflight, next_id>>

\* ------------------------------------------------------------- update_count
\* 'item_id' in data, 'counted_quantity' in data, a non-negative integer
CountPayloadOk(item_id, counted_quantity) ==
    item_id # NULL /\ counted_quantity # JAbsent /\ NonNegInt(counted_quantity)

\* update_count_check with the validation of the body before the session
update_count_check_body_first(session_id, current_user_id, item_id, counted_quantity) ==
    /\ WorkerFree
    /\ LET ok == CountPayloadOk(item_id, counted_quantity) IN
       IF ~ok
       THEN /\ rtde_resp' = RReply(COUNT, current_user_id, session_id,
                                    "ValidationError", ok, {})
            /\ UNCHANGED rtde_inflight
       ELSE IF SessionError(session_id, current_user_id) # ""
       THEN /\ rtde_resp' = RReply(COUNT, current_user_id, session_id,
                                    SessionError(session_id, current_user_id), ok, {})
            /\ UNCHANGED rtde_inflight
       ELSE /\ rtde_inflight' = rtde_inflight \cup
                   {Pending(COUNT, current_user_id, session_id, {},
                            item_id, counted_quantity.n, FALSE)}
            /\ rtde_resp' = RReply(COUNT, current_user_id, session_id, "pending", ok, {})
    /\ UNCHANGED <<milk_order, workers, now, rtde_items, rtde_sessions, rtde_counts, next_id>>

\* First step: the session, the 404, the 403 and the validation of the body.
update_count_check(session_id, current_user_id, item_id, counted_quantity) ==
    /\ WorkerFree
    /\ LET ok == CountPayloadOk(item_id, counted_quantity) IN
       IF SessionError(session_id, current_user_id) # ""
       THEN /\ rtde_resp' = RReply(COUNT, current_user_id, session_id,
                                    SessionError(session_id, current_user_id), ok, {})
            /\ UNCHANGED rtde_inflight
       ELSE IF ~ok
       THEN /\ rtde_resp' = RReply(COUNT, current_user_id, session_id,
                                    "ValidationError", ok, {})
            /\ UNCHANGED rtde_inflight
       ELSE /\ rtde_inflight' = rtde_inflight \cup
                   {Pending(COUNT, current_user_id, session_id, {},
                            item_id, counted_quantity.n, FALSE)}
            /\ rtde_resp' = RReply(COUNT, current_user_id, session_id, "pending", ok, {})
    /\ UNCHANGED <<milk_order, workers, now, rtde_items, rtde_sessions, rtde_counts, next_id>>

\* Second step: RTDEItem.query.get(item_id), the 404, and the query of the
\* count row of the session and the item.
update_count_find(r) ==
    /\ r \in rtde_inflight /\ r.op = COUNT /\ r.found = UNREAD
    /\ LET item_id == CHOOSE i \in r.item_id : TRUE
           count == FindCount(r.session_id, item_id)
       IN  IF \A i \in rtde_items : i.id # item_id
           THEN /\ rtde_inflight' = rtde_inflight \ {r}
                /\ rtde_resp' = RReply(COUNT, r.user, r.session_id, "NotFound", TRUE, {})
           ELSE /\ rtde_inflight' = (rtde_inflight \ {r}) \cup
                       {[r EXCEPT !.found = IF count # {} THEN ROW ELSE NO_ROW]}
                /\ rtde_resp' = RReply(COUNT, r.user, r.session_id, "pending", TRUE, {})
    /\ UNCHANGED <<milk_order, workers, now, rtde_items, rtde_sessions, rtde_counts, next_id>>

\* upsert_count that adds a row also when the table has one
upsert_count_add(counts, session_id, item_id, counted_quantity) ==
    counts \cup {[session_id |-> session_id, item_id |-> item_id,
                  counted_quantity |-> counted_quantity, is_pulled |-> FALSE]}

\* update_count: the count row found gets the quantity, without a row found
\* a new row RTDESessionCount(session_id, item_id, counted_quantity) is added.
upsert_count(counts, session_id, item_id, counted_quantity) ==
    LET count == {c \in counts : c.session_id = session_id /\ c.item_id = item_id} IN
    IF count # {}
    THEN (counts \ count) \cup {[c EXCEPT !.counted_quantity = counted_quantity] : c \in count}
    ELSE counts \cup {[session_id |-> session_id, item_id |-> item_id,
                       counted_quantity |-> counted_quantity, is_pulled |-> FALSE]}

\* write_raises without uq_rtde_session_counts_session_item
write_raises_without_unique(r) ==
    LET item_id == CHOOSE i \in r.item_id : TRUE IN
    IF r.found = ROW THEN FindCount(r.session_id, item_id) = {}
    ELSE IF r.found = NO_ROW
    THEN \/ GetRtdeSession(r.session_id) = {}
         \/ \A i \in rtde_items : i.id # item_id
    ELSE TRUE

\* write_raises without the foreign key to the session
write_raises_without_session_key(r) ==
    LET item_id == CHOOSE i \in r.item_id : TRUE IN
    IF r.found = ROW THEN FindCount(r.session_id, item_id) = {}
    ELSE IF r.found = NO_ROW
    THEN \/ FindCount(r.session_id, item_id) # {}
         \/ \A i \in rtde_items : i.id # item_id
    ELSE TRUE

\* Whether the commit of the write of a count row raises.  The UPDATE of a
\* row that is gone raises; the INSERT raises when the table has a row of
\* the session and the item (uq_rtde_session_counts_session_item), when the
\* session is gone and when there is no such item (foreign keys).
write_raises(r) ==
    LET item_id == CHOOSE i \in r.item_id : TRUE IN
    IF r.found = ROW THEN FindCount(r.session_id, item_id) = {}
    ELSE IF r.found = NO_ROW
    THEN \/ FindCount(r.session_id, item_id) # {}
         \/ GetRtdeSession(r.session_id) = {}
         \/ \A i \in rtde_items : i.id # item_id
    ELSE TRUE

\* Third step: the write and the commit.
update_count_save(r) ==
    /\ r \in rtde_inflight /\ r.op = COUNT /\ r.found # UNREAD
    /\ rtde_inflight' = rtde_inflight \ {r}
    /\ LET item_id == CHOOSE i \in r.item_id : TRUE
       IN  IF write_raises(r)
           THEN /\ rtde_resp' = RReply(COUNT, r.user, r.session_id, "ServerError", TRUE, {})
                /\ UNCHANGED rtde_counts
           ELSE /\ rtde_counts' = upsert_count(rtde_counts, r.session_id, item_id,
                                               r.counted_quantity)
                /\ rtde_resp' = RReply(COUNT, r.user, r.session_id, "ok", TRUE, {})
    /\ UNCHANGED <<milk_order, workers, now, rtde_items, rtde_sessions, next_id>>

\* --------------------------------------------------------- mark_item_pulled
\* 'item_id' in data and 'is_pulled' in data
PullPayloadOk(item_id, is_pulled) == item_id # NULL /\ is_pulled # NULL

mark_item_pulled_check(session_id, current_user_id, item_id, is_pulled) ==
    /\ WorkerFree
    /\ LET ok == PullPayloadOk(item_id, is_pulled) IN
       IF SessionError(session_id, current_user_id) # ""
       THEN /\ rtde_resp' = RReply(PULL, current_user_id, session_id,
                                    SessionError(session_id, current_user_id), ok, {})
            /\ UNCHANGED rtde_inflight
       ELSE IF ~ok
       THEN /\ rtde_resp' = RReply(PULL, current_user_id, session_id,
                                    "ValidationError", ok, {})
            /\ UNCHANGED rtde_inflight
       ELSE /\ rtde_inflight' = rtde_inflight \cup
                   {Pending(PULL, current_user_id, session_id, {},
                            item_id, 0, CHOOSE b \in is_pulled : TRUE)}
            /\ rtde_resp' = RReply(PULL, current_user_id, session_id, "pending", ok, {})
    /\ UNCHANGED <<milk_order, workers, now, rtde_items, rtde_sessions, rtde_counts, next_id>>

\* Second step: the query of the count row of the session and the item.
mark_item_pulled_find(r) ==
    /\ r \in rtde_inflight /\ r.op = PULL /\ r.found = UNREAD
    /\ LET item_id == CHOOSE i \in r.item_id : TRUE
           count == FindCount(r.session_id, item_id)
       IN  /\ rtde_inflight' = (rtde_inflight \ {r}) \cup
                  {[r EXCEPT !.found = IF count # {} THEN ROW ELSE NO_ROW]}
           /\ rtde_resp' = RReply(PULL, r.user, r.session_id, "pending", TRUE, {})
    /\ UNCHANGED <<milk_order, workers, now, rtde_items, rtde_sessions, rtde_counts, next_id>>

\* mark_item_pulled that also resets the quantity of the row found
upsert_pulled_resets_quantity(counts, session_id, item_id, is_pulled) ==
    LET count == {c \in counts : c.session_id = session_id /\ c.item_id = item_id} IN
    (counts \ count) \cup {[session_id |-> session_id, item_id |-> item_id,
                            counted_quantity |-> 0, is_pulled |-> is_pulled]}

\* mark_item_pulled: the count row found gets the flag, without a row found
\* a new row with counted_quantity=0 and the flag is added.
upsert_pulled(counts, session_id, item_id, is_pulled) ==
    LET count == {c \in counts : c.session_id = session_id /\ c.item_id = item_id} IN
    IF count # {}
    THEN (counts \ count) \cup {[c EXCEPT !.is_pulled = is_pulled] : c \in count}
    ELSE counts \cup {[session_id |-> session_id, item_id |-> item_id,
                       counted_quantity |-> 0, is_pulled |-> is_pulled]}

\* Third step: the write and the commit.
mark_item_pulled_save(r) ==
    /\ r \in rtde_inflight /\ r.op = PULL /\ r.found # UNREAD
    /\ rtde_inflight' = rtde_inflight \ {r}
    /\ LET item_id == CHOOSE i \in r.item_id : TRUE
       IN  IF write_raises(r)
           THEN /\ rtde_resp' = RReply(PULL, r.user, r.session_id, "ServerError", TRUE, {})
                /\ UNCHANGED rtde_counts
           ELSE /\ rtde_counts' = upsert_pulled(rtde_counts, r.session_id, item_id, r.is_pulled)
                /\ rtde_resp' = RReply(PULL, r.user, r.session_id, "ok", TRUE, {})
    /\ UNCHANGED <<milk_order, workers, now, rtde_items, rtde_sessions, next_id>>

\* --------------------------------------------------------- complete_session
complete_session_check(session_id, current_user_id) ==
    /\ WorkerFree
    /\ IF SessionError(session_id, current_user_id) # ""
       THEN /\ rtde_resp' = RReply(COMPLETE, current_user_id, session_id,
                                    SessionError(session_id, current_user_id), TRUE, {})
            /\ UNCHANGED rtde_inflight
       ELSE /\ rtde_inflight' = rtde_inflight \cup
                   {Pending(COMPLETE, current_user_id, session_id, {}, NULL, 0, FALSE)}
            /\ rtde_resp' = RReply(COMPLETE, current_user_id, session_id, "pending", TRUE, {})
    /\ UNCHANGED <<milk_order, workers, now, rtde_items, rtde_sessions, rtde_counts, next_id>>

\* Second step: mark_completed(), the delete of the counts of the session
\* and of the other in_progress sessions of the caller, the commit; the
\* UPDATE of a session row that is gone raises.
complete_session_commit(r) ==
    /\ r \in rtde_inflight /\ r.op = COMPLETE
    /\ IF GetRtdeSession(r.session_id) = {}
       THEN /\ rtde_resp' = RReply(COMPLETE, r.user, r.session_id, "ServerError", TRUE, {})
            /\ rtde_inflight' = rtde_inflight \ {r}
            /\ UNCHANGED <<rtde_sessions, rtde_counts>>
       ELSE LET session == CHOOSE x \in GetRtdeSession(r.session_id) : TRUE
                stray_sessions == {x.id : x \in {y \in InProgressOf(r.user) :
                                                    y.id # r.session_id}}
            IN  /\ rtde_sessions' =
                      {x \in rtde_sessions : x.id \notin stray_sessions \cup {session.id}}
                      \cup {mark_completed(session)}
                /\ rtde_counts' =
                      {c \in rtde_counts : c.session_id \notin stray_sessions \cup {session.id}}
                /\ rtde_inflight' =
                      Forget(rtde_inflight \ {r}, stray_sessions \cup {session.id})
                /\ rtde_resp' = RReply(COMPLETE, r.user, r.session_id, "ok", TRUE, {})
    /\ UNCHANGED <<milk_order, workers, now, rtde_items, next_id>>

\* ------------------------------------------- cleanup_expired_sessions_query
\* cleanup_expired_sessions_query without the filter on the status
cleanup_expired_sessions_any_status ==
    /\ LET expired == {x.id : x \in {y \in rtde_sessions : y.expires_at < now}}
       IN  /\ rtde_sessions' = {x \in rtde_sessions : x.id \notin expired}
           /\ rtde_counts' = {c \in rtde_counts : c.session_id \notin expired}
           /\ rtde_inflight' = Forget(rtde_inflight, expired)
           /\ rtde_resp' = RReply(CLEANUP, "", 0, "ok", TRUE, {Cardinality(expired)})
    /\ UNCHANGED <<milk_order, workers, now, rtde_items, next_id>>

\* One DELETE of the in_progress sessions with expires_at < utcnow(); the
\* foreign key of the count table deletes their counts.  The script runs in
\* a process of its own, not in a worker of the server.
cleanup_expired_sessions_query ==
    /\ LET expired == {x.id : x \in {y \in rtde_sessions :
                                        y.status = IN_PROGRESS /\ y.expires_at < now}}
       IN  /\ rtde_sessions' = {x \in rtde_sessions : x.id \notin expired}
           /\ rtde_counts' = {c \in rtde_counts : c.session_id \notin expired}
           /\ rtde_inflight' = Forget(rtde_inflight, expired)
           /\ rtde_resp' = RReply(CLEANUP, "", 0, "ok", TRUE, {Cardinality(expired)})
    /\ UNCHANGED <<milk_order, workers, now, rtde_items, next_id>>

\* ------------------------------------------------------------ specification
\* Bodies of the racing requests: an empty list, or one element that names
\* "whole" with the value 0.
LightCounts ==
    {{<<>>}, {<<[milk_type_id |-> {"whole"}, val |-> JInt(0)]>>}}
LightMorning ==
    {{<<>>},
     {<<[milk_type_id |-> {"whole"}, method |-> {BOH_COUNT},
         current_boh |-> JInt(0), delivered |-> JAbsent]>>},
     {<<[milk_type_id |-> {"whole"}, method |-> {DIRECT_DELIVERED},
         current_boh |-> JAbsent, delivered |-> JInt(0)]>>}}

Next ==
    \/ Tick
    \/ \E d \in Dates : start_session_check(d)
    \/ \E d \in Dates : start_session_create(d)
    \/ \E op \in SaveOps, sid \in SessionIdArgs : save_check(op, sid)
    \/ \E sid \in Dates, u \in Users, b \in LightCounts : save_night_foh(sid, u, b)
    \/ \E sid \in Dates, b \in LightCounts : save_night_boh(sid, b)
    \/ \E sid \in Dates, u \in Users, b \in LightMorning : save_morning_count(sid, u, b)
    \/ \E sid \in Dates, u \in Users, b \in LightCounts : save_on_order(sid, u, b)

Spec == Init /\ [][Next]_vars

NextData ==
    \/ \E d \in Dates : start_session_check(d)
    \/ \E d \in Dates : start_session_create(d)
    \/ \E op \in SaveOps, sid \in SessionIdArgs : save_check(op, sid)
    \/ \E sid \in Dates, u \in Users, b \in Bodies(CountElems) : save_night_foh(sid, u, b)
    \/ \E sid \in Dates, b \in Bodies(CountElems) : save_night_boh(sid, b)
    \/ \E sid \in Dates, u \in Users, b \in Bodies(MorningElems) : save_morning_count(sid, u, b)
    \/ \E sid \in Dates, u \in Users, b \in Bodies(CountElems) : save_on_order(sid, u, b)

DataSpec == InitData /\ [][NextData]_vars

NextStart ==
    \/ \E m \in IdArgs, a \in BOOLEAN : update_milk_type(m, a)
    \/ \E d \in Dates : start_session_check(d)
    \/ \E d \in Dates : start_session_create(d)
    \/ \E op \in SaveOps, sid \in SessionIdArgs : save_check(op, sid)
    \/ \E sid \in Dates, u \in Users, b \in LightCounts : save_night_foh(sid, u, b)

StartSpec == Init /\ [][NextStart]_vars

\* Bodies of the summary workflow: an empty list, or a list that names every
\* milk type once, "whole" with a value v and "oat" with MaxCount - v; in the
\* morning list the two elements use different methods.
OtherMethod(method) == IF method = BOH_COUNT THEN DIRECT_DELIVERED ELSE BOH_COUNT
MorningElem(m, method, v) ==
    [milk_type_id |-> {m}, method |-> {method},
     current_boh |-> IF method = BOH_COUNT THEN JInt(v) ELSE JAbsent,
     delivered |-> IF method = DIRECT_DELIVERED THEN JInt(v) ELSE JAbsent]
FullCounts(v) ==
    <<[milk_type_id |-> {"whole"}, val |-> JInt(v)],
      [milk_type_id |-> {"oat"}, val |-> JInt(MaxCount - v)]>>
FullMorning(method, v) ==
    <<MorningElem("whole", method, v),
      MorningElem("oat", OtherMethod(method), MaxCount - v)>>
SummaryCounts == {{<<>>}} \cup {{FullCounts(v)} : v \in 0..MaxCount}
SummaryMorning ==
    {{<<>>}} \cup {{FullMorning(method, v)} : method \in MorningMethod, v \in 0..MaxCount}
ParArgs == {JAbsent, JInt(-1)} \cup {JInt(n) : n \in 0..MaxPar}

\* The seeded catalog on a server with one worker.
InitSummary ==
    /\ milk_types = [m \in MilkTypeIds |-> TRUE]
    /\ par_levels = [m \in MilkTypeIds |-> {0}]
    /\ sessions = {}
    /\ entries = {}
    /\ inflight = [k \in Slots |-> 0]
    /\ workers = 1
    /\ now = 0
    /\ resp = Resp("none", "", "none")
    /\ NoRtde

NextSummary ==
    \/ \E m \in IdArgs, v \in ParArgs : update_par_level(m, v)
    \/ \E d \in Dates : start_session_check(d)
    \/ \E d \in Dates : start_session_create(d)
    \/ \E op \in SaveOps, sid \in SessionIdArgs : save_check(op, sid)
    \/ \E sid \in Dates, b \in SummaryCounts : save_night_foh(sid, "u1", b)
    \/ \E sid \in Dates, b \in SummaryCounts : save_night_boh(sid, b)
    \/ \E sid \in Dates, b \in SummaryMorning : save_morning_count(sid, "u1", b)
    \/ \E sid \in Dates, b \in SummaryCounts : save_on_order(sid, "u2", b)
    \/ \E sid \in SessionIdArgs : get_session_summary(sid)

SummarySpec == InitSummary /\ [][NextSummary]_vars

\* Bodies whose list is well formed: every element names a milk type (one of
\* the catalog or one no entry exists for) and holds a count in 0..MaxCount
\* under the key the handler reads.
GoodCounts ==
    {b \in Bodies(CountElems) :
        b # NULL /\ \A c \in Elems(b) : c.milk_type_id # NULL /\ NonNegInt(c.val)}
GoodMorning ==
    {b \in Bodies(MorningElems) :
        b # NULL /\ \A c \in Elems(b) :
            /\ c.milk_type_id # NULL
            /\ c.method \in {{BOH_COUNT}, {DIRECT_DELIVERED}}
            /\ NonNegInt(MethodValue(c))}

\* The workflow of one session on the seeded catalog, one request at a
\* time: the session has an entry for each of the two milk types and a list
\* names none, one or both of them.
InitCover == InitSummary

NextCover ==
    \/ \E d \in Dates : start_session_check(d)
    \/ \E d \in Dates : start_session_create(d)
    \/ \E op \in SaveOps, sid \in SessionIdArgs : save_check(op, sid)
    \/ \E sid \in Dates, b \in GoodCounts : save_night_foh(sid, "u1", b)
    \/ \E sid \in Dates, b \in GoodCounts : save_night_boh(sid, b)
    \/ \E sid \in Dates, b \in GoodMorning : save_morning_count(sid, "u1", b)
    \/ \E sid \in Dates, b \in GoodCounts : save_on_order(sid, "u2", b)

CoverSpec == InitCover /\ [][NextCover]_vars

\* ---------------------------------------------------- RTD&E specifications
\* One item in the catalog, no session yet.
RtdeStart ==
    /\ milk_types = [m \in MilkTypeIds |-> TRUE]
    /\ par_levels = [m \in MilkTypeIds |-> {0}]
    /\ sessions = {}
    /\ entries = {}
    /\ inflight = [k \in Slots |-> 0]
    /\ now = 0
    /\ resp = Resp("none", "", "none")
    /\ rtde_items = {[id |-> "latte", par_level |-> MaxCount, active |-> TRUE]}
    /\ rtde_sessions = {}
    /\ rtde_counts = {}
    /\ rtde_inflight = {}
    /\ next_id = 1
    /\ rtde_resp = [op |-> "none"]

ItemIdArgs == {NULL} \cup {{i} : i \in RtdeItemArgs}
PulledArgs == {NULL, {TRUE}, {FALSE}}

\* Access to the sessions of "u1": one request at a time, every shape of
\* request, both users as callers.
NextAccess ==
    \/ Elapse
    \/ get_active_session_load("u1")
    \/ \E r \in rtde_inflight : get_active_session_expire(r)
    \/ rtde_start_session_load("u1", "new")
    \/ \E r \in rtde_inflight : rtde_start_session_commit(r)
    \/ \E sid \in SessionIds, u \in Users : get_session(sid, u)
    \/ \E sid \in SessionIds, u \in Users : get_pull_list(sid, u)
    \/ \E sid \in SessionIds, u \in Users, i \in ItemIdArgs, q \in JsonVals :
          update_count_check(sid, u, i, q)
    \/ \E r \in rtde_inflight : update_count_find(r)
    \/ \E r \in rtde_inflight : update_count_save(r)
    \/ \E sid \in SessionIds, u \in Users, i \in ItemIdArgs, b \in PulledArgs :
          mark_item_pulled_check(sid, u, i, b)
    \/ \E r \in rtde_inflight : mark_item_pulled_find(r)
    \/ \E r \in rtde_inflight : mark_item_pulled_save(r)
    \/ \E sid \in SessionIds, u \in Users : complete_session_check(sid, u)
    \/ \E r \in rtde_inflight : complete_session_commit(r)

InitAccess == RtdeStart /\ workers = 1

AccessSpec == InitAccess /\ [][NextAccess]_vars

\* The session lifecycle with racing requests of both users.
NextLifecycle ==
    \/ Elapse
    \/ \E u \in Users : get_active_session_load(u)
    \/ \E r \in rtde_inflight : get_active_session_expire(r)
    \/ \E u \in Users, a \in Actions : rtde_start_session_load(u, a)
    \/ \E r \in rtde_inflight : rtde_start_session_commit(r)
    \/ \E sid \in SessionIds, u \in Users :
          update_count_check(sid, u, {"latte"}, JInt(MaxCount))
    \/ \E r \in rtde_inflight : update_count_find(r)
    \/ \E r \in rtde_inflight : update_count_save(r)
    \/ \E sid \in SessionIds, u \in Users : complete_session_check(sid, u)
    \/ \E r \in rtde_inflight : complete_session_commit(r)
    \/ cleanup_expired_sessions_query

InitLifecycle == RtdeStart /\ workers = MaxInflight

LifecycleSpec == InitLifecycle /\ [][NextLifecycle]_vars

\* Counting in the sessions of "u1": one request at a time, a catalog of two
\* active items and one inactive item, quantities below, at and above par.
CatalogIds == {"latte", "juice", "retired"}
Quantities == 0..(MaxCount + 1)

InitCount ==
    /\ milk_types = [m \in MilkTypeIds |-> TRUE]
    /\ par_levels = [m \in MilkTypeIds |-> {0}]
    /\ sessions = {}
    /\ entries = {}
    /\ inflight = [k \in Slots |-> 0]
    /\ workers = 1
    /\ now = 0
    /\ resp = Resp("none", "", "none")
    /\ rtde_items = {[id |-> "latte", par_level |-> MaxCount, active |-> TRUE],
                     [id |-> "juice", par_level |-> MaxCount + 1, active |-> TRUE],
                     [id |-> "retired", par_level |-> MaxCount, active |-> FALSE]}
    /\ rtde_sessions = {}
    /\ rtde_counts = {}
    /\ rtde_inflight = {}
    /\ next_id = 1
    /\ rtde_resp = [op |-> "none"]

NextCount ==
    \/ rtde_start_session_load("u1", "new")
    \/ \E r \in rtde_inflight : rtde_start_session_commit(r)
    \/ \E sid \in SessionIds : get_session(sid, "u1")
    \/ \E sid \in SessionIds : get_pull_list(sid, "u1")
    \/ \E sid \in SessionIds, i \in CatalogIds \cup {GhostId}, q \in Quantities :
          update_count_check(sid, "u1", {i}, JInt(q))
    \/ \E r \in rtde_inflight : update_count_find(r)
    \/ \E r \in rtde_inflight : update_count_save(r)
    \/ \E sid \in SessionIds, i \in CatalogIds \cup {GhostId}, b \in BOOLEAN :
          mark_item_pulled_check(sid, "u1", {i}, {b})
    \/ \E r \in rtde_inflight : mark_item_pulled_find(r)
    \/ \E r \in rtde_inflight : mark_item_pulled_save(r)

CountSpec == InitCount /\ [][NextCount]_vars

\* Racing update_count and mark_item_pulled requests of "u1" on one item.
NextUpsert ==
    \/ rtde_start_session_load("u1", "new")
    \/ \E r \in rtde_inflight : rtde_start_session_commit(r)
    \/ \E sid \in SessionIds, q \in 0..MaxCount :
          update_count_check(sid, "u1", {"latte"}, JInt(q))
    \/ \E r \in rtde_inflight : update_count_find(r)
    \/ \E r \in rtde_inflight : update_count_save(r)
    \/ \E sid \in SessionIds, b \in BOOLEAN :
          mark_item_pulled_check(sid, "u1", {"latte"}, {b})
    \/ \E r \in rtde_inflight : mark_item_pulled_find(r)
    \/ \E r \in rtde_inflight : mark_item_pulled_save(r)

InitUpsert == RtdeStart /\ workers = MaxInflight

UpsertSpec == InitUpsert /\ [][NextUpsert]_vars

\* The sweep as a periodic job: the sessions of "u1", one request at a time,
\* and a sweep that runs again and again.
NextSweep ==
    \/ Elapse
    \/ get_active_session_load("u1")
    \/ \E r \in rtde_inflight : get_active_session_expire(r)
    \/ rtde_start_session_load("u1", "new")
    \/ \E r \in rtde_inflight : rtde_start_session_commit(r)
    \/ \E sid \in SessionIds : update_count_check(sid, "u1", {"latte"}, JInt(MaxCount))
    \/ \E r \in rtde_inflight : update_count_find(r)
    \/ \E r \in rtde_inflight : update_count_save(r)
    \/ \E sid \in SessionIds : complete_session_check(sid, "u1")
    \/ \E r \in rtde_inflight : complete_session_commit(r)
    \/ cleanup_expired_sessions_query

InitSweep == RtdeStart /\ workers = 1

SweepSpec == InitSweep /\ [][NextSweep]_vars /\ WF_vars(cleanup_expired_sessions_query)

\* Writes of count rows racing with the deletion of their session: the
\* requests of "u1" and the sweep.
NextCascade ==
    \/ Elapse
    \/ rtde_start_session_load("u1", "new")
    \/ \E r \in rtde_inflight : rtde_start_session_commit(r)
    \/ \E sid \in SessionIds : update_count_check(sid, "u1", {"latte"}, JInt(MaxCount))
    \/ \E r \in rtde_inflight : update_count_find(r)
    \/ \E r \in rtde_inflight : update_count_save(r)
    \/ \E sid \in SessionIds : mark_item_pulled_check(sid, "u1", {"latte"}, {TRUE})
    \/ \E r \in rtde_inflight : mark_item_pulled_find(r)
    \/ \E r \in rtde_inflight : mark_item_pulled_save(r)
    \/ \E sid \in SessionIds : complete_session_check(sid, "u1")
    \/ \E r \in rtde_inflight : complete_session_commit(r)
    \/ cleanup_expired_sessions_query

InitCascade == RtdeStart /\ workers = MaxInflight

CascadeSpec == InitCascade /\ [][NextCascade]_vars

\* ------------------------------------------------------------------ claims
FirstStepResults == {"pending", "NotFound", "InvalidPhase", "Conflict"}
Unchanged == UNCHANGED <<sessions, entries>>

\* C1: the persisted status of a session never moves backwards in the order
\* night_foh < night_boh < morning < on_order < completed, in any
\* interleaving of the requests.
StatusNeverDecreases ==
    [][\A s \in sessions : \A t \in sessions' :
          t.id = s.id => Rank(t.status) >= Rank(s.status)]_vars

\* C2: a phase save that finds the session in another status than the one it
\* requires answers InvalidPhase and leaves the session row and every entry
\* row as they were.
WrongPhaseRejected ==
    [][\A op \in SaveOps : \A s \in sessions :
          (/\ resp'.op = op
           /\ resp'.session_id = s.id
           /\ resp'.result \in FirstStepResults
           /\ s.status # Required(op))
          => (resp'.result = "InvalidPhase" /\ Unchanged)]_vars

WrongPhaseRejectedSeen ==
    /\ resp.op = FOH
    /\ resp.result = "InvalidPhase"
    /\ \E s \in sessions : s.id = resp.session_id /\ s.status = MORNING
    /\ \E e \in entries : e.foh_count # NULL

\* C3: the status check and the status advance of a phase save are atomic: a
\* save succeeds only on a session that is, when it commits, still in the
\* status it requires, so of two racing calls of one phase at most one
\* succeeds.
SavePhaseAtomic ==
    [][\A op \in SaveOps : \A s \in sessions :
          (resp'.op = op /\ resp'.session_id = s.id /\ resp'.result = "ok")
          => s.status = Required(op)]_vars

\* C4: start_session on a date that has a session answers Conflict, creates
\* no session and no entry and leaves the existing rows as they were.
StartConflict ==
    [][\A s \in sessions :
          (/\ resp'.op = START
           /\ resp'.session_id = s.session_date
           /\ resp'.result \in FirstStepResults)
          => (resp'.result = "Conflict" /\ Unchanged)]_vars

StartConflictSeen ==
    /\ resp.op = START
    /\ resp.result = "Conflict"
    /\ \E s \in sessions : s.session_date = resp.session_id /\ s.status = MORNING
    /\ \E e \in entries : e.boh_count # NULL

\* C5: a phase save whose list holds a negative or non-integer value answers
\* ValidationError and commits nothing.
BadValueRejected ==
    [][(resp'.op \in SaveOps /\ resp'.asked.bad_value)
          => (resp'.result = "ValidationError" /\ Unchanged)]_vars

\* C6: a phase save whose list names a milk type id that has no entry row in
\* the session fails, advances no status and writes no entry.
UnknownItemRejected ==
    [][\A s \in sessions :
          (/\ resp'.op \in SaveOps
           /\ resp'.session_id = s.id
           /\ resp'.asked.list
           /\ \E m \in resp'.asked.ids : FindEntry(entries, s.id, m) = {})
          => (resp'.result # "ok" /\ Unchanged)]_vars

\* C7: a successful start_session adds one session in night_foh and exactly
\* one entry per milk type that is active at that moment, none for an
\* inactive one, every count column of the new entries NULL.
StartCreatesActiveEntries ==
    [][(resp'.op = START /\ resp'.result = "ok")
          => \E s \in sessions' \ sessions :
               LET new == entries' \ entries
                   active == {m \in MilkTypeIds : milk_types[m]}
               IN  /\ sessions' = sessions \cup {s}
                   /\ entries \subseteq entries'
                   /\ s.status = NIGHT_FOH
                   /\ {e.milk_type_id : e \in new} = active
                   /\ Cardinality(new) = Cardinality(active)
                   /\ \A e \in new :
                        /\ e.session_id = s.id
                        /\ e.foh_count = NULL /\ e.boh_count = NULL
                        /\ e.morning_method = NULL /\ e.current_boh = NULL
                        /\ e.delivered = NULL /\ e.on_order = NULL]_vars

StartCreatesActiveEntriesSeen ==
    /\ resp.op = START
    /\ resp.result = "ok"
    /\ \E m \in MilkTypeIds : ~milk_types[m]
    /\ \E m \in MilkTypeIds : milk_types[m] /\ FindEntry(entries, resp.session_id, m) # {}

DirectElem(m, d) ==
    [milk_type_id |-> {m}, method |-> {DIRECT_DELIVERED},
     current_boh |-> JAbsent, delivered |-> JInt(d)]
BohElem(m, c) ==
    [milk_type_id |-> {m}, method |-> {BOH_COUNT},
     current_boh |-> JInt(c), delivered |-> JAbsent]

DirectStoredVerbatim ==
    [][\A sid \in Dates, u \in Users, m \in MilkTypeIds, d \in 0..MaxCount :
          \A before \in {<<>>} \cup {<<BohElem(m, c)>> : c \in 0..MaxCount} :
             (/\ save_morning_count(sid, u, {before \o <<DirectElem(m, d)>>})
              /\ FindEntry(entries, sid, m) # {})
             => /\ resp'.result = "ok"
                /\ \A e \in FindEntry(entries', sid, m) :
                     /\ e.morning_method = {DIRECT_DELIVERED}
                     /\ e.delivered = {d}
                     /\ e.current_boh = NULL
                     /\ calculate_delivered(e) = {d}]_vars

DirectStoredVerbatimSeen ==
    /\ resp.op = MORN
    /\ resp.result = "ok"
    /\ \E e \in entries :
         /\ e.morning_method = {DIRECT_DELIVERED}
         /\ e.delivered = {1}
         /\ e.boh_count = {1}

\* C10: save_morning_count answers ValidationError and changes nothing when
\* an element of its list has an unknown method or lacks the key its method
\* reads, whatever milk type id the element names.
MalformedMorningRejected ==
    [][(resp'.op = MORN /\ (resp'.asked.bad_method \/ resp'.asked.missing_field))
          => (resp'.result = "ValidationError" /\ Unchanged)]_vars

\* C11: every row of a summary answer belongs to one entry of the session and
\* holds total = foh_count + boh_count + delivered of that entry, a NULL
\* column counted as 0, and order = max(0, par_value - total - on_order), a
\* missing par level or on_order counted as 0; order is never negative.
ParOf(m) == IF par_levels[m] = NULL THEN 0 ELSE OrZero(par_levels[m])
SessionEntries(sid) == {e \in entries : e.session_id = sid}

SummaryFormula ==
    [][(resp'.op = SUMMARY /\ resp'.result = "ok")
          => /\ \A e \in SessionEntries(resp'.session_id) :
                  \E r \in resp'.summary.rows :
                     /\ r.milk_type = e.milk_type_id
                     /\ r.total = OrZero(e.foh_count) + OrZero(e.boh_count)
                                    + OrZero(e.delivered)
                     /\ r.order = Max0(ParOf(e.milk_type_id) - r.total - OrZero(e.on_order))
                     /\ r.order >= 0
             /\ Cardinality(resp'.summary.rows)
                  = Cardinality(SessionEntries(resp'.session_id))]_vars

\* C12: start_session gives a session in night_foh; each phase save whose
\* list names every entry stores the supplied values (delivered as
\* max(0, current_boh - boh_count) or as supplied) and advances the status;
\* after the four saves the session is completed and the summary holds, for
\* each milk type, total = foh + boh + delivered and
\* order = max(0, par - total - on_order) of the supplied values.
Supplied(list, m) == (CHOOSE c \in {list[i] : i \in DOMAIN list} : c.milk_type_id = {m})
StatusOf(tbl, sid) == {s.status : s \in {x \in tbl : x.id = sid}}
Complete(e) ==
    /\ e.foh_count # NULL /\ e.boh_count # NULL
    /\ e.morning_method # NULL /\ e.delivered # NULL /\ e.on_order # NULL
ExpectedDelivered(e) ==
    IF e.morning_method = {BOH_COUNT}
    THEN Max0(OrZero(e.current_boh) - OrZero(e.boh_count))
    ELSE OrZero(e.delivered)

FullWorkflow ==
    [][/\ (resp'.op = START /\ resp'.result = "ok")
            => StatusOf(sessions', resp'.session_id) = {NIGHT_FOH}
       /\ \A sid \in Dates, v \in 0..MaxCount :
            /\ save_night_foh(sid, "u1", {FullCounts(v)})
                 => /\ StatusOf(sessions', sid) = {NIGHT_BOH}
                    /\ \A e \in SessionEntries(sid)' :
                         e.foh_count = {Supplied(FullCounts(v), e.milk_type_id).val.n}
            /\ save_night_boh(sid, {FullCounts(v)})
                 => /\ StatusOf(sessions', sid) = {MORNING}
                    /\ \A e \in SessionEntries(sid)' :
                         e.boh_count = {Supplied(FullCounts(v), e.milk_type_id).val.n}
            /\ save_on_order(sid, "u2", {FullCounts(v)})
                 => /\ StatusOf(sessions', sid) = {COMPLETED}
                    /\ \A e \in SessionEntries(sid)' :
                         e.on_order = {Supplied(FullCounts(v), e.milk_type_id).val.n}
            /\ \A method \in MorningMethod :
                 save_morning_count(sid, "u1", {FullMorning(method, v)})
                 => /\ StatusOf(sessions', sid) = {ON_ORDER}
                    /\ \A e \in SessionEntries(sid)' :
                         LET c == Supplied(FullMorning(method, v), e.milk_type_id) IN
                         /\ e.morning_method = c.method
                         /\ c.method = {BOH_COUNT}
                              => e.delivered = {Max0(c.current_boh.n - OrZero(e.boh_count))}
                         /\ c.method = {DIRECT_DELIVERED}
                              => e.delivered = {c.delivered.n}
       /\ (/\ resp'.op = SUMMARY /\ resp'.result = "ok"
           /\ StatusOf(sessions, resp'.session_id) = {COMPLETED}
           /\ \A e \in SessionEntries(resp'.session_id) : Complete(e))
            => /\ resp'.summary.status = COMPLETED
               /\ \A e \in SessionEntries(resp'.session_id) :
                    \E r \in resp'.summary.rows :
                       /\ r.milk_type = e.milk_type_id
                       /\ r.total = OrZero(e.foh_count) + OrZero(e.boh_count)
                                      + ExpectedDelivered(e)
                       /\ r.order = Max0(ParOf(e.milk_type_id) - r.total
                                            - OrZero(e.on_order))]_vars

FullWorkflowSeen ==
    /\ resp.op = SUMMARY
    /\ resp.result = "ok"
    /\ resp.summary.status = COMPLETED
    /\ \A e \in SessionEntries(resp.session_id) : Complete(e)
    /\ \E r \in resp.summary.rows : r.order > 0 /\ r.delivered > 0 /\ r.on_order > 0
    /\ \E r \in resp.summary.rows : r.order = 0 /\ r.par < r.total + r.on_order

\* C13: each phase timestamp of a session is set once, by the successful
\* save of its phase, and is not overwritten or cleared afterwards, in any
\* interleaving of the requests.
PhaseStamps ==
    {<<FOH, "night_foh_saved_at">>, <<BOH, "night_boh_saved_at">>,
     <<MORN, "morning_saved_at">>, <<ONORD, "on_order_saved_at">>,
     <<ONORD, "completed_at">>}

TimestampsSetOnce ==
    [][\A s \in sessions : \A t \in sessions' : \A p \in PhaseStamps :
          t.id = s.id =>
             /\ s[p[2]] # NULL => t[p[2]] = s[p[2]]
             /\ (s[p[2]] = NULL /\ t[p[2]] # NULL)
                  => (resp'.op = p[1] /\ resp'.result = "ok"
                      /\ resp'.session_id = s.id)]_vars

\* C14: a successful save_night_boh leaves night_count_user_id as it was,
\* the caller of the save_night_foh that advanced the session: only a
\* successful save_night_foh writes the column, with its caller, and the
\* column holds a user whenever save_night_boh succeeds.
NightUserKept ==
    [][\A s \in sessions : \A t \in sessions' :
          t.id = s.id =>
             /\ (resp'.op = BOH /\ resp'.session_id = s.id /\ resp'.result = "ok")
                  => /\ t.night_count_user_id = s.night_count_user_id
                     /\ s.night_count_user_id # NULL
             /\ t.night_count_user_id # s.night_count_user_id
                  => /\ resp'.op = FOH /\ resp'.result = "ok"
                     /\ \E u \in Users, b \in LightCounts :
                          /\ save_night_foh(s.id, u, b)
                          /\ t.night_count_user_id = {u}]_vars

NightUserKeptSeen ==
    /\ resp.op = BOH
    /\ resp.result = "ok"
    /\ \E s \in sessions :
         /\ s.id = resp.session_id
         /\ s.status = MORNING
         /\ s.night_count_user_id = {"u2"}
         /\ s.night_boh_saved_at # s.night_foh_saved_at

\* C15: update_count is accepted only on a session whose status is
\* in_progress: on an expired or completed session it is rejected and no
\* count row is created or changed.
UpdateCountNeedsInProgress ==
    [][\A x \in rtde_sessions :
          (/\ rtde_resp'.op = COUNT
           /\ rtde_resp'.session_id = x.id
           /\ x.status # IN_PROGRESS)
          => (rtde_resp'.result \notin {"ok", "pending"} /\ UNCHANGED rtde_counts)]_vars

\* C16: update_count, mark_item_pulled, get_pull_list, get_session and
\* complete_session called by a user who does not own the session answer
\* Forbidden and leave the session rows and the count rows as they were.
NotOwnerForbidden ==
    [][\A x \in rtde_sessions :
          (/\ rtde_resp'.op \in SessionScoped
           /\ rtde_resp'.session_id = x.id
           /\ rtde_resp'.user # x.user_id)
          => (/\ rtde_resp'.result = "Forbidden"
              /\ UNCHANGED <<rtde_sessions, rtde_counts, rtde_inflight>>)]_vars

NotOwnerForbiddenSeen ==
    /\ rtde_resp.op = COMPLETE
    /\ rtde_resp.result = "Forbidden"
    /\ \E x \in rtde_sessions :
         /\ x.id = rtde_resp.session_id
         /\ x.user_id # rtde_resp.user
         /\ x.status = IN_PROGRESS
         /\ CountsOf(x.id) # {}

\* C17: in every operation on a session URL the existence of the session is
\* checked first, then the owner, then the body: an id without a session
\* answers NotFound for every caller and every body, a session of another
\* user answers Forbidden also when the body is invalid.
ChecksInOrder ==
    [][rtde_resp'.op \in SessionScoped =>
          /\ GetRtdeSession(rtde_resp'.session_id) = {}
                => rtde_resp'.result = "NotFound"
          /\ \A x \in GetRtdeSession(rtde_resp'.session_id) :
                rtde_resp'.user # x.user_id => rtde_resp'.result = "Forbidden"
          /\ rtde_resp'.result = "ValidationError"
                => \E x \in GetRtdeSession(rtde_resp'.session_id) :
                      x.user_id = rtde_resp'.user]_vars

ChecksInOrderSeen ==
    /\ rtde_resp.op = COUNT
    /\ rtde_resp.result = "Forbidden"
    /\ ~rtde_resp.payload_ok
    /\ GetRtdeSession(rtde_resp.session_id) # {}

\* C18: start_session with action=new deletes every in_progress session of
\* the caller with its count rows and creates one in_progress session with
\* expires_at = now + Window; right after it the caller owns exactly one
\* in_progress session, the new one, and it has no count row; the rows of
\* other users and the caller's sessions in another status stay.
NewAnswered == rtde_resp'.op = RSTART /\ rtde_resp'.result = "ok" /\ next_id' # next_id

NewReplacesInProgress ==
    [][\A u \in Users : (NewAnswered /\ rtde_resp'.user = u) =>
          LET gone == {x.id : x \in InProgressOf(u)}
          IN  \E session \in rtde_sessions' \ rtde_sessions :
                 /\ rtde_resp'.returned = {[id |-> session.id,
                                            expires_at |-> session.expires_at]}
                 /\ session.user_id = u
                 /\ session.status = IN_PROGRESS
                 /\ session.expires_at = now + Window
                 /\ InProgressOf(u)' = {session}
                 /\ {c \in rtde_counts' : c.session_id = session.id} = {}
                 /\ rtde_sessions' = {x \in rtde_sessions : x.id \notin gone} \cup {session}
                 /\ rtde_counts' = {c \in rtde_counts : c.session_id \notin gone}]_vars

\* C19: each user owns at most one in_progress session, in every reachable
\* state of any interleaving of the requests.
OneInProgressPerUser ==
    \A u \in Users : Cardinality(InProgressOf(u)) <= 1

\* C20: start_session with action=resume answers the id of the caller's
\* most recently started in_progress session when there is one and it is
\* not expired, answers an error when the caller has no in_progress session
\* or the one found is expired, and writes nothing in either case.
ResumeAnswered ==
    /\ rtde_resp'.op = RSTART
    /\ rtde_resp'.result \in {"ok", "NoActiveSession"}
    /\ next_id' = next_id

ResumeReadsOnly ==
    [][ResumeAnswered =>
          LET found == MostRecent(InProgressOf(rtde_resp'.user)) IN
          /\ UNCHANGED <<rtde_sessions, rtde_counts, rtde_inflight>>
          /\ rtde_resp'.result = "ok"
               => \E x \in found :
                     /\ ~(now > x.expires_at)
                     /\ rtde_resp'.returned = {[id |-> x.id, expires_at |-> x.expires_at]}
          /\ rtde_resp'.result = "NoActiveSession"
               => \/ found = {}
                  \/ \E x \in found : now > x.expires_at]_vars

ResumeReadsOnlySeen ==
    /\ rtde_resp.op = RSTART
    /\ rtde_resp.result = "NoActiveSession"
    /\ \E x \in InProgressOf(rtde_resp.user) : now > x.expires_at /\ CountsOf(x.id) # {}

\* C21: when get_active_session finds that the caller's most recent
\* in_progress session has expires_at in the past, it answers no session and
\* the status of that session becomes expired; a session it returns never
\* has expires_at in the past.
ExpiredFound(user_id) == {x \in MostRecent(InProgressOf(user_id)) : now > x.expires_at}

ReadsExpireLazily ==
    [][\A x \in rtde_sessions :
          (/\ rtde_resp'.op \in {GET, PULL_LIST}
           /\ rtde_resp'.session_id = x.id
           /\ rtde_resp'.user = x.user_id
           /\ x.status = IN_PROGRESS
           /\ now > x.expires_at)
          => /\ rtde_resp'.result # "ok"
             /\ rtde_resp'.returned = {}
             /\ [x EXCEPT !.status = EXPIRED] \in rtde_sessions']_vars

\* C23: update_count is an upsert: without a count row of the session and
\* the item it adds one with the quantity, with one it overwrites the
\* quantity and nothing else; the same call again leaves the counts as they
\* are, and calls on two items of a session give the same counts in either
\* order.
Answered == rtde_inflight \ rtde_inflight'

UpsertLaws ==
    \A sid \in SessionIds, i \in CatalogIds, q \in Quantities :
       LET once == upsert_count(rtde_counts, sid, i, q) IN
       /\ upsert_count(once, sid, i, q) = once
       /\ \A j \in CatalogIds \ {i}, p \in Quantities :
             upsert_count(once, sid, j, p)
                = upsert_count(upsert_count(rtde_counts, sid, j, p), sid, i, q)

UpdateCountUpserts ==
    /\ []UpsertLaws
    /\ [][(rtde_resp'.op = COUNT /\ rtde_resp'.result = "ok") =>
             \E r \in Answered : \E i \in r.item_id :
                LET old == FindCount(r.session_id, i) IN
                /\ old = {} =>
                      rtde_counts' = rtde_counts \cup
                         {[session_id |-> r.session_id, item_id |-> i,
                           counted_quantity |-> r.counted_quantity, is_pulled |-> FALSE]}
                /\ \A c \in old :
                      rtde_counts' = (rtde_counts \ {c}) \cup
                         {[c EXCEPT !.counted_quantity = r.counted_quantity]}
                /\ (\E c \in old : c.counted_quantity = r.counted_quantity)
                      => UNCHANGED rtde_counts]_vars

UpdateCountUpsertsSeen ==
    /\ rtde_resp.op = COUNT
    /\ rtde_resp.result = "ok"
    /\ \E c, d \in CountsOf(rtde_resp.session_id) :
          /\ c.item_id # d.item_id
          /\ c.counted_quantity > 0
          /\ d.counted_quantity > 0
          /\ c.is_pulled

\* C24: the count table never holds two rows of one session and one item,
\* also when two update_count or mark_item_pulled requests that both found
\* no row of the pair race: the insert of the second is refused, it answers
\* an error and stores nothing.
UniquePair ==
    \A c, d \in rtde_counts :
       (c.session_id = d.session_id /\ c.item_id = d.item_id) => c = d

OneRowPerPair ==
    /\ []UniquePair
    /\ [][\A r \in Answered : \A i \in r.item_id :
             (/\ r.op \in {COUNT, PULL}
              /\ r.found = NO_ROW
              /\ FindCount(r.session_id, i) # {})
             => (rtde_resp'.result = "ServerError" /\ UNCHANGED rtde_counts)]_vars

OneRowPerPairSeen ==
    /\ rtde_resp.op = PULL
    /\ rtde_resp.result = "ServerError"
    /\ GetRtdeSession(rtde_resp.session_id) # {}
    /\ \E c \in CountsOf(rtde_resp.session_id) : c.counted_quantity = MaxCount /\ ~c.is_pulled

\* C25: get_pull_list answers exactly the active items whose need is above
\* zero, with need = par_level - counted_quantity when that is positive and
\* the counted quantity of an item without a count row taken as 0: an item
\* counted at or above par is absent, an item without a count row has need
\* equal to its par level, an inactive item is never in the list.
CountedOf(sid, item) ==
    IF FindCount(sid, item.id) = {} THEN 0
    ELSE (CHOOSE c \in FindCount(sid, item.id) : TRUE).counted_quantity
NeedOf(sid, item) ==
    IF item.par_level > CountedOf(sid, item) THEN item.par_level - CountedOf(sid, item) ELSE 0

PullListExact ==
    [][(rtde_resp'.op = PULL_LIST /\ rtde_resp'.result = "ok") =>
          LET sid == rtde_resp'.session_id
              needed == {i \in rtde_items : i.active /\ NeedOf(sid, i) > 0}
          IN  /\ rtde_resp'.returned # {}
              /\ \A ans \in rtde_resp'.returned :
                    /\ {x.item_id : x \in ans.pull_list} = {i.id : i \in needed}
                    /\ Cardinality(ans.pull_list) = Cardinality(needed)
                    /\ ans.total_items = Cardinality(needed)
                    /\ \A x \in ans.pull_list : \E i \in needed :
                          /\ i.id = x.item_id
                          /\ x.need_quantity = NeedOf(sid, i)
                          /\ FindCount(sid, i.id) = {}
                                => x.need_quantity = i.par_level /\ ~x.is_pulled
                          /\ \A c \in FindCount(sid, i.id) : x.is_pulled = c.is_pulled
              /\ UNCHANGED <<rtde_sessions, rtde_counts, rtde_items>>]_vars

PullListExactSeen ==
    /\ rtde_resp.op = PULL_LIST
    /\ rtde_resp.result = "ok"
    /\ \E ans \in rtde_resp.returned :
          ans.pull_list = {[item_id |-> "juice", need_quantity |-> MaxCount + 1,
                            is_pulled |-> FALSE]}
    /\ FindCount(rtde_resp.session_id, "juice") = {}
    /\ \E c \in FindCount(rtde_resp.session_id, "latte") : c.counted_quantity > MaxCount
    /\ \E c \in FindCount(rtde_resp.session_id, "retired") : c.counted_quantity = 0

CountsNameItems ==
    \A c \in rtde_counts : \E i \in rtde_items : i.id = c.item_id

UnknownRtdeItemNotFound ==
    /\ []CountsNameItems
    /\ [][\A r \in Answered : \A i \in r.item_id :
             (/\ r.op \in {COUNT, PULL}
              /\ rtde_resp'.result # "pending"
              /\ \A item \in rtde_items : item.id # i)
             => (rtde_resp'.result = "NotFound" /\ UNCHANGED rtde_counts)]_vars

\* C28: after complete_session answers success to the owner, the table has
\* no row of the completed session and no count row of it, and the caller
\* owns no in_progress session.
CompleteRemovesSession ==
    [][(rtde_resp'.op = COMPLETE /\ rtde_resp'.result = "ok") =>
          /\ \A x \in rtde_sessions' : x.id # rtde_resp'.session_id
          /\ \A c \in rtde_counts' : c.session_id # rtde_resp'.session_id
          /\ \A x \in rtde_sessions' :
                x.user_id = rtde_resp'.user => x.status # IN_PROGRESS]_vars

\* C29: the sweep deletes exactly the sessions that are in_progress with
\* expires_at < now when it runs and answers their number; every other
\* session stays as it is; a sweep right after a sweep, at the same time,
\* deletes nothing, answers 0 and raises no error.
Sweepable == {x \in rtde_sessions : x.status = IN_PROGRESS /\ x.expires_at < now}

SweepExact ==
    [][rtde_resp'.op = CLEANUP =>
          /\ rtde_resp'.result = "ok"
          /\ rtde_sessions' = rtde_sessions \ Sweepable
          /\ rtde_resp'.returned = {Cardinality(Sweepable)}
          /\ rtde_counts' = {c \in rtde_counts : \A x \in Sweepable : c.session_id # x.id}
          /\ \A x \in rtde_sessions' : ~(x.status = IN_PROGRESS /\ x.expires_at < now')
          /\ rtde_resp.op = CLEANUP
                => /\ rtde_resp'.returned = {0}
                   /\ UNCHANGED <<rtde_sessions, rtde_counts>>]_vars

SweepExactSeen ==
    /\ rtde_resp.op = CLEANUP
    /\ rtde_resp.returned = {1}
    /\ \E x \in rtde_sessions : x.status = EXPIRED /\ x.expires_at < now

\* C30: with a sweep that keeps running, every session whose expires_at has
\* passed and that is not completed is removed in the end, also when
\* get_active_session has set its status to expired.
Overdue(id) ==
    \E x \in rtde_sessions : x.id = id /\ x.status # COMPLETED /\ x.expires_at < now
Settled(id) ==
    \A x \in rtde_sessions : x.id = id => x.status = COMPLETED

ExpiredEventuallyRemoved ==
    \A id \in SessionIds : Overdue(id) ~> Settled(id)

\* C31: a session created without an explicit expires_at has expires_at
\* exactly 4 hours (240 minutes) after started_at.
FourHourWindow ==
    \A x \in rtde_sessions : (x.expires_at - x.started_at) * StepMinutes = 240

\* C32: there is at most one session per date in every reachable state,
\* also when two start_session requests of one date both pass the check for
\* an existing session before either commits; the request that does not
\* create the session answers Conflict and writes no session and no entry.
OneSessionPerDate ==
    \A s, t \in sessions : s.session_date = t.session_date => s = t

RacingStartConflict ==
    /\ []OneSessionPerDate
    /\ [][\A s \in sessions :
             (resp'.op = START /\ resp'.session_id = s.session_date)
             => (resp'.result = "Conflict" /\ Unchanged)]_vars

\* C33: an entry field is written only in its own phase, in any
\* interleaving of the saves: foh_count does not change once the status of
\* the session is past night_foh, boh_count once it is past night_boh,
\* morning_method, current_boh and delivered once it is past morning,
\* on_order once it is past on_order; the entries of a completed session
\* do not change.
Past(s, phase) == Rank(s.status) > Rank(phase)

FieldsFrozenAfterPhase ==
    [][\A e \in entries : \A s \in GetSession(e.session_id) :
          \E f \in entries' :
             /\ f.session_id = e.session_id /\ f.milk_type_id = e.milk_type_id
             /\ Past(s, NIGHT_FOH) => f.foh_count = e.foh_count
             /\ Past(s, NIGHT_BOH) => f.boh_count = e.boh_count
             /\ Past(s, MORNING) => /\ f.morning_method = e.morning_method
                                    /\ f.current_boh = e.current_boh
                                    /\ f.delivered = e.delivered
             /\ Past(s, ON_ORDER) => f.on_order = e.on_order
             /\ s.status = COMPLETED => f = e]_vars

\* C34: in every reachable state the stamps of a session agree with its
\* status: night_foh_saved_at and night_count_user_id are set exactly when
\* the status is past night_foh, night_boh_saved_at exactly when it is past
\* night_boh, morning_saved_at and morning_count_user_id exactly when it is
\* past morning, on_order_saved_at and completed_at exactly when it is
\* completed.
StampsAgreeWithStatus ==
    \A s \in sessions :
       /\ (s.night_foh_saved_at # NULL) <=> Past(s, NIGHT_FOH)
       /\ (s.night_count_user_id # NULL) <=> Past(s, NIGHT_FOH)
       /\ (s.night_boh_saved_at # NULL) <=> Past(s, NIGHT_BOH)
       /\ (s.morning_saved_at # NULL) <=> Past(s, MORNING)
       /\ (s.morning_count_user_id # NULL) <=> Past(s, MORNING)
       /\ (s.on_order_saved_at # NULL) <=> s.status = COMPLETED
       /\ (s.completed_at # NULL) <=> s.status = COMPLETED

\* C35: every count row names a session that exists, in every reachable
\* state: the delete of a session by action=new, by the stray cleanup of
\* complete_session or by the sweep removes its count rows, also when an
\* update_count or a mark_item_pulled on the session is between its steps.
CountsHaveSession ==
    \A c \in rtde_counts : GetRtdeSession(c.session_id) # {}

CountsFollowSession ==
    /\ []CountsHaveSession
    /\ [][\A x \in rtde_sessions :
             (\A y \in rtde_sessions' : y.id # x.id)
             => \A c \in rtde_counts' : c.session_id # x.id]_vars

CountsFollowSessionSeen ==
    /\ rtde_resp.op \in {COUNT, PULL}
    /\ rtde_resp.result = "ServerError"
    /\ GetRtdeSession(rtde_resp.session_id) = {}
    /\ rtde_sessions # {}
    /\ rtde_counts # {}

\* C36: the status of an RTD&E session changes only out of in_progress, to
\* expired or to completed; a session that is expired or completed keeps its
\* status and its completed_at in every later step, so complete_session on
\* such a session does not mark it completed.
StatusLeavesInProgressOnly ==
    [][\A x \in rtde_sessions : \A y \in rtde_sessions' :
          y.id = x.id =>
              /\ y.status # x.status =>
                    x.status = IN_PROGRESS /\ y.status \in {EXPIRED, COMPLETED}
              /\ x.status # IN_PROGRESS => y.completed_at = x.completed_at]_vars

\* The columns the save of a phase writes.
PhaseColumns(op) ==
    CASE op = FOH -> {"foh_count"}
      [] op = BOH -> {"boh_count"}
      [] op = MORN -> {"morning_method", "current_boh", "delivered"}
      [] op = ONORD -> {"on_order"}
EntryColumns == UNION {PhaseColumns(op) : op \in SaveOps}

\* The second step of a save: its request leaves the requests in flight.
Saved(op) ==
    /\ resp'.op = op
    /\ \E sid \in Dates : inflight'[<<op, sid>>] < inflight[<<op, sid>>]

\* C37: a phase save in the status it requires whose list is well formed
\* answers 200 and moves the session to the next status whatever entries the
\* list names, the empty list included; an entry of the session the list does
\* not name keeps the column of the phase NULL, and on no entry a column of
\* another phase changes.
SaveCoversListOnly ==
    [][\A op \in SaveOps :
            Saved(op) =>
               /\ resp'.result = "ok"
               /\ \A s \in GetSession(resp'.session_id) :
                     /\ s.status = Required(op)
                     /\ \E t \in sessions' :
                           t.id = s.id /\ Rank(t.status) = Rank(s.status) + 1
               /\ \A e \in entries :
                     \E f \in FindEntry(entries', e.session_id, e.milk_type_id) :
                        /\ \A col \in EntryColumns \ PhaseColumns(op) : f[col] = e[col]
                        /\ e.session_id # resp'.session_id => f = e
                        /\ e.milk_type_id \notin resp'.asked.ids =>
                              \A col \in PhaseColumns(op) : f[col] = NULL]_vars

\* A morning save whose list named only "oat" has left "whole" without a
\* morning count; the empty on-order list has completed the session.
SaveCoversListOnlySeen ==
    /\ resp.op = ONORD /\ resp.result = "ok"
    /\ resp.asked.list /\ resp.asked.ids = {}
    /\ \E s \in sessions : s.status = COMPLETED
    /\ \E e \in entries : /\ e.milk_type_id = "whole"
                          /\ e.foh_count # NULL
                          /\ e.morning_method = NULL /\ e.delivered = NULL
                          /\ e.on_order = NULL
    /\ \E e \in entries : e.milk_type_id = "oat" /\ e.delivered # NULL

\* C38: after a save_morning_count that answered 200 the delivered column of
\* every entry the call updated equals what calculate_delivered() returns
\* for the entry, also when the night back count of the entry was never
\* saved, so the summary reports the persisted value.
DeliveredMatchesCalculated ==
    [][Saved(MORN) /\ resp'.result = "ok" =>
          \A f \in entries' :
             /\ f.session_id = resp'.session_id
             /\ f.milk_type_id \in resp'.asked.ids
             => f.delivered = calculate_delivered(f)]_vars

=============================================================================
